---- MODULE Spec2Model ----
(***************************************************************************)
(* Model of the metrics computation worker of mlab-metrics-api:            *)
(* metrics_computation_system/worker.py together with the CloudSQL and     *)
(* BigQuery backends it drives (common/cloud_sql_backend.py,               *)
(* common/big_query_backend.py).                                           *)
(*                                                                         *)
(* Strings whose content the code inspects (dates, table names, locale     *)
(* ids) are sequences of one-character strings.  A float is the integer    *)
(* 2 * 10^7 times its value, so that a sample with seven decimals is an    *)
(* even integer and the mean of two samples is an integer.  The list of    *)
(* samples of a bucket is kept as a bag (value -> multiplicity): the code  *)
(* only takes its length and its median.                                   *)
(***************************************************************************)
EXTENDS Integers, Sequences, FiniteSets, Bags, TLC

None == "None"
NoDate == <<>>

Workers == {"w1", "w2"}
MetricNames == {"m1", "m2"}

\* Bounds of the model (not program constants).
MaxDup == 1
MaxShutdowns == 1

\* ------------------------------------------------------------------ strings
DigitChars == <<"0", "1", "2", "3", "4", "5", "6", "7", "8", "9">>
Letters == <<"A", "B", "C", "D", "E", "F", "G", "H", "I", "J", "K", "L", "M",
             "N", "O", "P", "Q", "R", "S", "T", "U", "V", "W", "X", "Y", "Z">>

IsDigit(c) == \E i \in 1..10 : DigitChars[i] = c
DigitVal(c) == (CHOOSE i \in 1..10 : DigitChars[i] = c) - 1
LetterOrd(c) == CHOOSE i \in 1..26 : Letters[i] = c

\* '%02d' % n and '%04d' % n ('%4d' pads with blanks, which never shows for
\* the four-digit years the date pattern admits).
Fmt02d(n) == IF n < 100 THEN <<DigitChars[(n \div 10) + 1], DigitChars[(n % 10) + 1]>>
             ELSE <<DigitChars[(n \div 100) + 1], DigitChars[((n \div 10) % 10) + 1],
                    DigitChars[(n % 10) + 1]>>
Fmt04d(n) == <<DigitChars[((n \div 1000) % 10) + 1], DigitChars[((n \div 100) % 10) + 1],
               DigitChars[((n \div 10) % 10) + 1], DigitChars[(n % 10) + 1]>>

\* _DATE_FMT % (year, month)  ->  'YYYY_MM'
DATE_FMT(year, month) == Fmt04d(year) \o <<"_">> \o Fmt02d(month)

\* re.match(_DATE_RE, s) with _DATE_RE = '^([1-9][0-9]{3})_([0-9]{2})$'
DATE_RE(s) ==
    /\ Len(s) = 7
    /\ IsDigit(s[1]) /\ s[1] # "0"
    /\ IsDigit(s[2]) /\ IsDigit(s[3]) /\ IsDigit(s[4])
    /\ s[5] = "_"
    /\ IsDigit(s[6]) /\ IsDigit(s[7])

\* int(match.groups()[0]), int(match.groups()[1])
MatchYear(s) == 1000 * DigitVal(s[1]) + 100 * DigitVal(s[2]) + 10 * DigitVal(s[3]) + DigitVal(s[4])
MatchMonth(s) == 10 * DigitVal(s[6]) + DigitVal(s[7])

\* datetime.date(year, month, 1): a value, or ValueError for an impossible month.
ValidDate(year, month) == year \in 1..9999 /\ month \in 1..12
PyDate(year, month) == [year |-> year, month |-> month, day |-> 1]

\* str(datetime.date)  ->  'YYYY-MM-DD'
StrDate(d) == Fmt04d(d.year) \o <<"-">> \o Fmt02d(d.month) \o <<"-">> \o Fmt02d(d.day)

\* The task queue flattens a parameter with str(): a string stays as it is,
\* a datetime.date becomes 'YYYY-MM-DD'.
TaskParamOfDate(d) == StrDate(d)

\* '%4d-%02d-01' % date_tup, the DATE literal of the SQL statements, and the
\* DATE value the relational store makes of it.
SqlDateLiteral(date_tup) == Fmt04d(date_tup[1]) \o <<"-">> \o Fmt02d(date_tup[2]) \o <<"-", "0", "1">>
SqlDateValue(lit) ==
    [year |-> 1000 * DigitVal(lit[1]) + 100 * DigitVal(lit[2]) + 10 * DigitVal(lit[3]) + DigitVal(lit[4]),
     month |-> 10 * DigitVal(lit[6]) + DigitVal(lit[7]),
     day |-> 10 * DigitVal(lit[9]) + DigitVal(lit[10])]

\* urllib.quote(): letters, digits and '_.-/' are kept, any other character
\* becomes %XX (the model's only such characters are blank and '%').
QuoteChar(c) == IF c = " " THEN <<"%", "2", "0">>
                ELSE IF c = "%" THEN <<"%", "2", "5">>
                ELSE <<c>>
RECURSIVE Quote(_)
Quote(s) == IF s = <<>> THEN <<>> ELSE QuoteChar(Head(s)) \o Quote(Tail(s))

\* '_'.join(parts)
RECURSIVE Join(_)
Join(parts) == IF Len(parts) = 1 THEN parts[1]
               ELSE parts[1] \o <<"_">> \o Join(Tail(parts))

WorldKey == <<"w", "o", "r", "l", "d">>

\* ------------------------------------------------------------- constants
MIN_ENTRIES_THRESHOLD == 100
STANDARD_QUERY_PARAMS == {"select", "from", "where", "group_by"}
RequestTypes == {"delete_metric", "refresh_metric", "update_metric"}

\* ------------------------------------------------- the analytical backend
\* A table of the dataset is a sequence of runs: `n` result rows that agree on
\* (country, region, city, value).  The backend hands a result out one run per
\* page, which is how the model cuts a result into pages.
Row(country, region, city, value) ==
    [country |-> country, region |-> region, city |-> city, value |-> value]
Run(row, n) == [row |-> row, n |-> n]

US == <<"U", "S">>
DE == <<"D", "E">>
CA == <<"C", "A">>
BE == <<"B", "E">>
MV == <<"M", "V">>
SF == <<"S", " ", "F">>
BLN == <<"B", "_", "L">>

\* The float with integer part i and seven decimals f, as 2 * 10^7 times it.
Float(i, f) == 2 * (10000000 * i + f)

\* Sample values: 1.0, 1.2345678, 2.0, 3.0.
V1 == Float(1, 0)
V1b == Float(1, 2345678)
V2 == Float(2, 0)
V3 == Float(3, 0)

Table_2013_01 ==
    << Run(Row(US, CA, MV, V1), 50),
       Run(Row(DE, BE, BLN, V2), 1),
       Run(Row(US, CA, MV, V1b), 50),
       Run(Row(US, CA, SF, V3), 99) >>
Table_2013_02 ==
    << Run(Row(DE, BE, BLN, V2), 60),
       Run(Row(DE, BE, BLN, V1b), 40),
       Run(Row(US, CA, SF, V3), 1) >>

Name_2013_01 == <<"2", "0", "1", "3", "_", "0", "1">>
Name_2013_02 == <<"2", "0", "1", "3", "_", "0", "2">>
Name_locales == <<"_", "l", "o", "c">>
Name_0999_01 == <<"0", "9", "9", "9", "_", "0", "1">>

\* The states the dataset can be in when the worker starts: table name -> rows.
BigQueryStates ==
    { (Name_2013_01 :> Table_2013_01) @@ (Name_2013_02 :> Table_2013_02)
         @@ (Name_locales :> <<>>),
      (Name_2013_01 :> Table_2013_01) @@ (Name_2013_02 :> <<>>)
         @@ (Name_0999_01 :> <<>>) }

\* _COUNTRY_SPLITS: country_code < "N" and country_code >= "N", as the
\* backend evaluates them (string comparison, decided by the first letter).
COUNTRY_SPLITS == <<"lt_N", "ge_N">>
InSplit(split, country) ==
    LET lt == country = <<>> \/ LetterOrd(country[1]) < LetterOrd("N")
    IN IF split = "lt_N" THEN lt ELSE ~lt

RECURSIVE SelectRuns(_, _)
SelectRuns(runs, split) ==
    IF runs = <<>> THEN <<>>
    ELSE IF InSplit(split, Head(runs).row.country)
         THEN <<Head(runs)>> \o SelectRuns(Tail(runs), split)
         ELSE SelectRuns(Tail(runs), split)

\* The pages of the result of the metric query for one country split over the
\* month table `table` of dataset state `bq`.
QueryPages(bq, table, split) ==
    IF table \in DOMAIN bq THEN SelectRuns(bq[table], split) ELSE <<>>

\* DATE_TABLES_FMT % date_tup: the name of the month table of a date.
DATE_TABLES_FMT(date_tup) == Fmt04d(date_tup[1]) \o <<"_">> \o Fmt02d(date_tup[2])

\* BigQueryBackend._DateTableMap / ExistingDates: the dates of the tables whose
\* name matches DATE_TABLES_RE (the same pattern as _DATE_RE).
DateTableMap(bq) ==
    { PyDate(MatchYear(t), MatchMonth(t)) : t \in { n \in DOMAIN bq : DATE_RE(n) } }
BigQueryExistingDates(bq) == DateTableMap(bq)

\* ------------------------------------------------- the relational backend
\* A metric's data table: whether it exists, and its rows as a bag (the table
\* has no key, so equal rows and rows that agree on locale and date can pile up).
DataRow(locale, date, value) == [locale |-> locale, date |-> date, value |-> value]
NoTable == [exists |-> FALSE, rows |-> EmptyBag]
EmptyTable == [exists |-> TRUE, rows |-> EmptyBag]

\* 'value=%f' % value: six decimals, i.e. the nearest multiple of 20 units
\* (ties to even; no median of the model's data is a tie).
FormatF(value) ==
    LET q == value \div 20
        r == value % 20
    IN IF r < 10 THEN 20 * q
       ELSE IF r > 10 THEN 20 * (q + 1)
       ELSE IF q % 2 = 0 THEN 20 * q ELSE 20 * (q + 1)

\* A SetMetricData whose first statement deletes nothing.
SqlDeleteNothing(rows, locale, date) == rows

\* A DELETE that leaves the date out of its WHERE clause.
SqlDeleteLocale(rows, locale, date) ==
    [r \in { x \in DOMAIN rows : x.locale # locale } |-> rows[r]]

\* DELETE FROM t WHERE locale=.. AND date=..
SqlDeleteLocaleDate(rows, locale, date) ==
    [r \in { x \in DOMAIN rows : ~(x.locale = locale /\ x.date = date) } |-> rows[r]]
\* A DELETE of a month that deletes nothing.
SqlKeepDate(rows, date) == rows

\* DELETE FROM t WHERE date=..
SqlDeleteDate(rows, date) ==
    [r \in { x \in DOMAIN rows : x.date # date } |-> rows[r]]
\* INSERT INTO t SET locale=.., date=.., value=..
SqlInsert(rows, row) == rows (+) SetToBag({row})
\* SELECT DISTINCT date FROM t
CloudSQLExistingDates(rows) == { r.date : r \in DOMAIN rows }

\* ------------------------------------------------------------- the buckets
BagAdd(b, v, n) == IF v \in DOMAIN b THEN [b EXCEPT ![v] = @ + n] ELSE b @@ (v :> n)

\* metric_values[locale_type][locale].append(value), n times
Append_n(f, locale, v, n) ==
    IF locale \in DOMAIN f THEN [f EXCEPT ![locale] = BagAdd(@, v, n)]
    ELSE f @@ (locale :> (v :> n))

LocaleTypes == <<"city", "region", "country", "world">>

EmptyMetricValues ==
    [city |-> <<>>, region |-> <<>>, country |-> <<>>, world |-> (WorldKey :> EmptyBag)]

CityKey(row) == Join(<<row.country, row.region, Quote(row.city)>>)
RegionKey(row) == Join(<<row.country, row.region>>)
CountryKey(row) == row.country

\* A row loop that leaves the world bucket out.
BucketRowsNoWorld(mv, run) ==
    [city |-> Append_n(mv.city, CityKey(run.row), run.row.value, run.n),
     region |-> Append_n(mv.region, RegionKey(run.row), run.row.value, run.n),
     country |-> Append_n(mv.country, CountryKey(run.row), run.row.value, run.n),
     world |-> mv.world]

\* The body of the row loop of _ComputeMetricData, for a run of n equal rows.
BucketRows(mv, run) ==
    LET row == run.row
        value == row.value
    IN [city |-> Append_n(mv.city, CityKey(row), value, run.n),
        region |-> Append_n(mv.region, RegionKey(row), value, run.n),
        country |-> Append_n(mv.country, CountryKey(row), value, run.n),
        world |-> Append_n(mv.world, WorldKey, value, run.n)]

\* A filter that also drops the buckets with exactly the threshold.
AtOrBelowThreshold(samples) == BagCardinality(samples) <= MIN_ENTRIES_THRESHOLD

\* len(metric_values[locale_type][locale]) < _MIN_ENTRIES_THRESHOLD
BelowThreshold(samples) == BagCardinality(samples) < MIN_ENTRIES_THRESHOLD

\* The locales of one type that are left after the skipped ones are deleted.
KeptLocales(mv, type) == { l \in DOMAIN mv[type] : ~BelowThreshold(mv[type][l]) }

\* The i-th element (from 0) of the sorted list of samples.
SortedAt(samples, i) ==
    CHOOSE v \in DOMAIN samples :
        LET below == { u \in DOMAIN samples : u < v }
            upto == { u \in DOMAIN samples : u <= v }
        IN /\ BagCardinality([u \in below |-> samples[u]]) <= i
           /\ i < BagCardinality([u \in upto |-> samples[u]])

\* A median that takes the lower of the two middle samples.
LowerMedian(samples) == SortedAt(samples, (BagCardinality(samples) - 1) \div 2)

\* numpy.median: the middle of the sorted samples, the mean of the two middle
\* ones when their number is even.
Median(samples) ==
    LET n == BagCardinality(samples)
    IN IF n % 2 = 1 THEN SortedAt(samples, (n - 1) \div 2)
       ELSE (SortedAt(samples, (n \div 2) - 1) + SortedAt(samples, n \div 2)) \div 2

\* The order in which a dict is iterated: fixed for given keys, not specified.
RECURSIVE DictOrder(_)
DictOrder(S) ==
    IF S = {} THEN <<>>
    ELSE LET x == CHOOSE y \in S : TRUE IN <<x>> \o DictOrder(S \ {x})

RECURSIVE WriteOrder(_, _)
WriteOrder(mv, types) ==
    IF types = <<>> THEN <<>>
    ELSE LET type == Head(types)
             ls == DictOrder(KeptLocales(mv, type))
         IN [i \in 1..Len(ls) |-> [type |-> type, locale |-> ls[i]]]
            \o WriteOrder(mv, Tail(types))

\* ------------------------------------------------------------------ state
VARIABLES
    queue,          \* the task queue: a bag of tasks (flat parameter maps)
    bigquery,       \* the dataset: table name -> rows
    definitions,    \* the metric definitions table: name -> words of the query
    tables,         \* the metric data tables: name -> [exists, rows]
    shuttingDown,   \* runtime.is_shutting_down() of each worker instance
    pc,             \* where each worker is in the handling of its task
    task,           \* the task each worker is handling
    job,            \* the locals of the handler of each worker
    lastExp,        \* history: the last expansion (its request and what it sent)
    lastRun,        \* history: the last compute runs that reached FINISHED
    dups,           \* number of duplicate deliveries so far
    shutdowns       \* number of shutdown signals so far

\* The state of one query cursor of the BigQuery client (one job id).
VARIABLES
    now,            \* datetime.now(), in seconds
    job_total,      \* the backend's totalRows of the job
    timeout_msec,   \* the timeout the caller passes to GetQueryResults
    max_rows,       \* the max_rows_to_retrieve the caller passes
    issued,         \* IssueQuery has returned the job id
    current_row,    \* _current_row[job_id]
    has_more_data,  \* _has_more_data[job_id]
    start_time,     \* _start_time[job_id]
    total_timeout,  \* _total_timeout[job_id], in msec
    call,           \* the GetQueryResults call in progress and its locals
    outcome,        \* history: how the last GetQueryResults call ended
    attempts,       \* history: the remote calls of the current _GetQueryResponse
    fetched,        \* history: rows in the responses received so far
    first_fetch,    \* history: datetime.now() at the first GetQueryResults
    calls,          \* number of GetQueryResults calls so far
    errors          \* number of errors the backend has answered so far

\* The locales: the clock and the backend's locale tables, one LocalesManager,
\* one LocaleFinder and the threads reading it.
VARIABLES
    today,          \* datetime.now(), in days
    backend,        \* the locale tables of the backend
    manager,        \* the members of the LocalesManager
    m_call,         \* history: how the last call on the manager went
    finder,         \* the members of the LocaleFinder
    reader,         \* per thread: its place in FindNearestNeighbors and its locals
    builds          \* history: the number of index builds so far

\* One BigQuery client with the cursors (job ids) opened on it, and the
\* QueryResults object that wraps each of them.
VARIABLES
    jobs,           \* the backend's jobs: job id -> totalRows, first row with a schema
    client,         \* the dicts of the client, keyed by job id
    results,        \* the QueryResults objects: job id -> its members
    fill,           \* the GetQueryResults call in progress and its locals
    yielded,        \* history: job id -> the pages of rows Rows() has yielded
    raised          \* history: job id -> the QueryErrors raised to the caller

\* One request to the API server and what the server answers.
VARIABLES
    api_request,    \* the call in progress: its kind and its arguments
    api_reply       \* what the call returned or raised

wvars == <<queue, bigquery, definitions, tables, shuttingDown, pc, task, job,
           lastExp, lastRun, dups, shutdowns>>
qvars == <<now, job_total, timeout_msec, max_rows, issued, current_row,
           has_more_data, start_time, total_timeout, call, outcome, attempts,
           fetched, first_fetch, calls, errors>>
lvars == <<today, backend, manager, m_call, finder, reader, builds>>
cvars == <<jobs, client, results, fill, yielded, raised>>
avars == <<api_request, api_reply>>
vars == <<wvars, qvars, lvars, cvars, avars>>

\* What the worker's steps leave alone, and what the cursor's steps leave alone.
notWorker == <<qvars, lvars, cvars, avars>>
notCursor == <<wvars, lvars, cvars, avars>>
notLocale == <<wvars, qvars, cvars, avars>>
notClient == <<wvars, qvars, lvars, avars>>
notApi == <<wvars, qvars, lvars, cvars>>

\* The job ids of the client model.
JobIds == {"j1", "j2"}

\* The call GetQueryResults has not been entered.
NoFill == [pc |-> "idle", job |-> "none", rows_left |-> 0, rows |-> <<>>, schema |-> FALSE]

\* The client before any query is issued on it (the other models do not look at it).
NoClient ==
    /\ jobs = <<>>
    /\ client = [current_row |-> <<>>, has_more_data |-> <<>>, start_time |-> <<>>,
                 total_timeout |-> <<>>]
    /\ results = <<>>
    /\ fill = NoFill
    /\ yielded = <<>>
    /\ raised = <<>>

\* The API server while no request is handled.
NoRequest == [kind |-> "none"]
NoReply == [kind |-> "none"]
NoApi ==
    /\ api_request = NoRequest
    /\ api_reply = NoReply

Task(request, metric, date) == [request |-> request, metric |-> metric, date |-> date]
NoTask == Task(None, None, NoDate)
NoPyDate == [year |-> 0, month |-> 0, day |-> 0]

NoJob == [date |-> NoPyDate, rs |-> 0, page |-> 0, total_rows |-> 0,
          metric_values |-> EmptyMetricValues, pending |-> <<>>, median |-> 0,
          written |-> {}]

NoExp == [valid |-> FALSE, task |-> NoTask, sent |-> EmptyBag, failed |-> FALSE,
          exc |-> "none"]
\* History of the last attempt a failed statement cut short: what it had written.
NoCut == [valid |-> FALSE, metric |-> None, date |-> NoPyDate, pc |-> "idle",
          total_rows |-> 0, written |-> {}]
NoRun == [valid |-> FALSE, metric |-> None, date |-> NoPyDate, n |-> 0,
          first |-> EmptyBag, last |-> EmptyBag, written |-> {}, cut |-> NoCut]

ValidQuery == STANDARD_QUERY_PARAMS \cup {"value"}
BadQuery == {"select", "from", "value"}

Date_2013_01 == PyDate(2013, 1)
Date_2013_02 == PyDate(2013, 2)

\* The states the relational store can be in when the worker starts.
StoreStates ==
    { [m \in MetricNames |-> NoTable],
      [m \in MetricNames |->
         IF m = "m1"
         THEN [exists |-> TRUE,
               rows |-> SetToBag({ DataRow(Join(<<US, CA, MV>>), Date_2013_01, V3),
                                   DataRow(Join(<<US, CA, Quote(SF)>>), Date_2013_01, V3),
                                   DataRow(WorldKey, Date_2013_01, V2) })]
         ELSE [exists |-> TRUE,
               rows |-> SetToBag({ DataRow(WorldKey, Date_2013_01, V1) })]] }

\* ------------------------------------------------- the BigQuery client
\* ---------------------------------------------------------------------------
\* Locales (src/common/locales.py): the LocalesManager cache and the
\* LocaleFinder index over it.
\* ---------------------------------------------------------------------------

\* LOCALE_REFRESH_RATE = timedelta(days=2); the clock counts days.
LOCALE_REFRESH_RATE == 2

\* datetime.fromtimestamp(0): a time at which every cache is old.
Epoch == 0 - LOCALE_REFRESH_RATE

\* Bounds of the locale model.
MaxDay == 2
MaxVersion == 2
MaxBuilds == 2

\* for locale_type in ('country', 'region', 'city')
RefreshOrder == <<"country", "region", "city">>
TypeSet == {"country", "region", "city"}

\* The id of the 'world' row, which GetLocaleData never returns.
WorldId == 0

LocaleRow(id, locale, parent_id, lat, lon) ==
    [id |-> id, locale |-> locale, parent_id |-> parent_id, lat |-> lat, lon |-> lon]

\* The rows GetLocaleData(locale_type) returns from a backend holding version
\* `ver` of the locale tables. `linked`: regions and cities name their parent
\* row; otherwise their parent_id resolves to no loaded row. `cities`: the
\* backend has city rows.
GetLocaleData(b, locale_type) ==
    LET up(id) == IF b.linked THEN id ELSE WorldId
    IN IF b.ver = 1
       THEN CASE locale_type = "country" ->
                   <<LocaleRow(1, "US", WorldId, 90, 0), LocaleRow(2, "CA", WorldId, 90, 90)>>
              [] locale_type = "region" -> <<LocaleRow(3, "US_ny", up(1), 90, 0)>>
              [] OTHER -> IF b.cities THEN <<LocaleRow(4, "US_ny_nyc", up(3), 90, 0)>>
                          ELSE <<>>
       ELSE CASE locale_type = "country" ->
                   <<LocaleRow(1, "US", WorldId, 90, 0), LocaleRow(5, "MX", WorldId, 90, 180)>>
              [] locale_type = "region" -> <<LocaleRow(6, "US_ca", up(1), 90, 90)>>
              [] OTHER -> IF b.cities THEN <<LocaleRow(7, "US_ca_sfo", up(6), 90, 90)>>
                          ELSE <<>>

Backends == [ver : {1}, linked : BOOLEAN, cities : BOOLEAN]

\* Locale(name, long_name, latitude, longitude, parent)
Locale(name, latitude, longitude, parent) ==
    [name |-> name, latitude |-> latitude, longitude |-> longitude, parent |-> parent,
     children |-> <<>>]

\* A latitude, longitude or parent that is None.
NoValue == 0 - 1

\* A dict or list member that is None.
IsNone(x) == DOMAIN x = {}

\* The locals of LocalesManager._Refresh before its loop.
StartFresh ==
    [exc |-> "none",
     locales |-> ("world" :> Locale("world", NoValue, NoValue, NoValue)),
     locales_by_type |-> [t \in TypeSet \cup {"world"} |->
                             IF t = "world" THEN <<"world">> ELSE <<>>],
     locales_by_id |-> <<>>,
     info_bound |-> FALSE,
     info |-> <<>>,
     failed |-> {}]

\* locales[locales_by_id[parent]]: the name `parent` is bound nowhere in the
\* function or the module.
ChildReference == "NameError"

\* A loop body that keeps the parent_id of a row whose parent is unknown.
KeepParentId(parent_id, known) == parent_id

\* The parent of the Locale of a row: the parent_id the constructor is given,
\* set to None when it is the id of no row loaded so far.
ParentOf(parent_id, known) == IF known THEN parent_id ELSE NoValue

\* The body of `for row in info['data']` for the rows from index i on.
RECURSIVE ParseRows(_, _, _, _)
ParseRows(rows, i, locale_type, acc) ==
    IF i > Len(rows) \/ acc.exc # "none" THEN acc
    ELSE LET row == rows[i]
             by_id == (row.id :> row.locale) @@ acc.locales_by_id
             known == row.parent_id \in DOMAIN by_id
             new == Locale(row.locale, row.lat, row.lon, ParentOf(row.parent_id, known))
         IN ParseRows(rows, i + 1, locale_type,
                [acc EXCEPT !.locales = (row.locale :> new) @@ @,
                            !.locales_by_type[locale_type] = Append(@, row.locale),
                            !.locales_by_id = by_id,
                            !.exc = IF known THEN ChildReference ELSE "none"])

\* One pass of `for locale_type in ('country', 'region', 'city')`, from the
\* type at index k on. `failing`: the types whose GetLocaleData raises
\* LoadError; `first`: self._locales is None.
RECURSIVE LoadTypes(_, _, _, _, _)
LoadTypes(b, k, failing, first, acc) ==
    IF k > Len(RefreshOrder) \/ acc.exc # "none" THEN acc
    ELSE LET locale_type == RefreshOrder[k]
         IN IF locale_type \in failing
            THEN LET hit == [acc EXCEPT !.failed = @ \cup {locale_type}]
                 IN IF first
                    THEN [hit EXCEPT !.exc = "RefreshError"]
                    ELSE IF ~acc.info_bound
                         THEN [hit EXCEPT !.exc = "UnboundLocalError"]
                         ELSE LoadTypes(b, k + 1, failing, first,
                                        ParseRows(acc.info, 1, locale_type, hit))
            ELSE LET info == GetLocaleData(b, locale_type)
                 IN LoadTypes(b, k + 1, failing, first,
                              ParseRows(info, 1, locale_type,
                                        [acc EXCEPT !.info = info, !.info_bound = TRUE]))

\* The loop of LocalesManager._Refresh: the locals at its end, or the exception
\* that leaves it.
RefreshLoop(b, failing, first) == LoadTypes(b, 1, failing, first, StartFresh)

\* A refresh that never takes itself for the first one.
NeverFirst(locales) == FALSE

\* `if self._locales is None:  # First refresh.`
IsFirstRefresh(locales) == IsNone(locales)

\* LocalesManager._Refresh on manager m at time t: the manager after it, the
\* exception that leaves it, and the types whose load failed.
ManagerRefresh(m, b, failing, t) ==
    IF m.disable_refresh \/ t - m.last_refresh < LOCALE_REFRESH_RATE
    THEN [m |-> m, exc |-> "none", failed |-> {}, loaded |-> FALSE]
    ELSE LET r == RefreshLoop(b, failing, IsFirstRefresh(m.locales))
         IN [m |-> IF r.exc # "none" THEN m
                   ELSE [m EXCEPT !.locales = r.locales,
                                  !.locales_by_type = r.locales_by_type,
                                  !.last_refresh = t],
             exc |-> r.exc, failed |-> r.failed, loaded |-> TRUE]

\* LocalesManager.ForceRefresh
ForceRefresh(m, b, failing, t) == ManagerRefresh([m EXCEPT !.last_refresh = Epoch], b, failing, t)

\* A LocalesManager as its constructor leaves it.
NewManager ==
    [disable_refresh |-> FALSE, locales |-> <<>>, locales_by_type |-> <<>>,
     last_refresh |-> Epoch]

\* math.sin and math.cos of an angle in degrees, for the multiples of 90.
Sin(d) == CASE d % 360 = 90 -> 1 [] d % 360 = 270 -> 0 - 1 [] OTHER -> 0
Cos(d) == CASE d % 360 = 0 -> 1 [] d % 360 = 180 -> 0 - 1 [] OTHER -> 0

\* GeoTree._LatLonToCartesian, in units of r = 2**31 - 1.
LatLonToCartesian(lat, lon) == <<Sin(lat) * Cos(lon), Sin(lat) * Sin(lon), Cos(lat)>>

\* The square of the Euclidean distance of two keys.
Dist2(a, b) ==
    (a[1] - b[1]) * (a[1] - b[1]) + (a[2] - b[2]) * (a[2] - b[2])
        + (a[3] - b[3]) * (a[3] - b[3])

\* KDTree.nearest_neighbor: the locales of the pairs of the tree whose key is
\* closest to the point.
NearestNeighbor(data, cart) ==
    { data[i][2] : i \in { j \in 1..Len(data) :
          \A k \in 1..Len(data) : Dist2(data[j][1], cart) <= Dist2(data[k][1], cart) } }

\* No tree (None).
NoTree == [build |-> 0, data |-> <<>>, catalog |-> <<>>]

\* A tree that holds, next to the locales of its manager, a pair for a locale
\* the manager does not have.
GeoTreeWithStray(target_locales, lm, n) ==
    [build |-> n,
     data |-> <<<<LatLonToCartesian(90, 180), "ZZ">>>>,
     catalog |-> target_locales]

\* GeoTree(target_locales, locales_manager) made by build number n:
\* self._data, and the list of the manager it was made from.
GeoTree(target_locales, lm, n) ==
    [build |-> n,
     data |-> [i \in 1..Len(target_locales) |->
                 <<LatLonToCartesian(lm.locales[target_locales[i]].latitude,
                                     lm.locales[target_locales[i]].longitude),
                   target_locales[i]>>],
     catalog |-> target_locales]

\* KDTree(3, data) fails: a constructor that rejects an empty list
\* (`strict`) fails on one.
KDTreeFails(data, strict) == strict /\ data = <<>>

\* A LocaleFinder as its constructor leaves it.
NewFinder ==
    [countries |-> NoTree, regions |-> NoTree, cities |-> NoTree, last_refresh |-> Epoch]

\* The member of the finder that holds the tree of a type.
Member(locale_type) ==
    CASE locale_type = "country" -> "countries"
      [] locale_type = "region" -> "regions"
      [] OTHER -> "cities"

\* The lines 380-386 of LocaleFinder._Refresh at time t: a new manager is
\* refreshed and the three trees are built into locals, as build number n.
\* The trees, or the exception that leaves the method.
BuildTrees(b, failing, strict, t, n) ==
    LET r == ForceRefresh(NewManager, b, failing, t)
        lm == [r.m EXCEPT !.disable_refresh = TRUE]
        tree(ty) == GeoTree(lm.locales_by_type[ty], lm, n)
        none == [ty \in TypeSet |-> NoTree]
    IN IF r.exc # "none" THEN [exc |-> r.exc, failed |-> r.failed, trees |-> none]
       ELSE IF \E ty \in TypeSet : KDTreeFails(tree(ty).data, strict)
       THEN [exc |-> "Error", failed |-> {}, trees |-> none]
       ELSE [exc |-> "none", failed |-> r.failed, trees |-> [ty \in TypeSet |-> tree(ty)]]

\* A refresh that has stored the trees it had built when it failed.
StoreWhatWasBuilt(f, r, b, n) ==
    [f EXCEPT !.countries = GeoTree(<<>>, NewManager, n)]

\* The finder after lines 380-386 raised: the assignments of lines 389-392
\* are not reached.
FinderAfterFailure(f, r, b, n) == f

\* A reader thread outside FindNearestNeighbors.
NoRead ==
    [pc |-> "idle", k |-> 0, lat |-> 0, lon |-> 0,
     trees |-> [t \in TypeSet |-> NoTree],
     found |-> [t \in TypeSet |-> [locale |-> "", build |-> 0]],
     exc |-> "none"]

Readers == {"t1", "t2"}

\* The coordinates looked up.
Points == {<<90, 0>>, <<90, 180>>}

\* The history of the manager before any call: `since` and `built` are the
\* times of the last refresh that succeeded, before and after the call.
NoManagerCall ==
    [op |-> "none", at |-> 0, exc |-> "none", failed |-> {}, first |-> FALSE,
     loaded |-> FALSE, since |-> Epoch, built |-> Epoch]

\* The locale state while nothing uses it.
NoLocale ==
    /\ today = 0
    /\ backend = [ver |-> 1, linked |-> FALSE, cities |-> TRUE]
    /\ manager = NewManager
    /\ m_call = NoManagerCall
    /\ finder = NewFinder
    /\ reader = [t \in Readers |-> NoRead]
    /\ builds = 0

MAX_RESULTS_PER_PACKET == 2000
\* _GetQueryResponse(.., retries=4) and its time.sleep(2)
DefaultRetries == 4
SleepSeconds == 2

\* Bounds of the cursor model.
MaxClock == 10
MaxCalls == 3
MaxRunning == 1
MaxErrors == 5

\* A time that is not set.
Unset == 0 - 1

Min(a, b) == IF a <= b THEN a ELSE b

\* The jobs, timeouts (msec) and row limits the cursor is tried with.
JobTotals == {0, 1500, 4500}
Timeouts == {0, 3000, 600000}
MaxRowsToRetrieve == {2500, 10000}

NoCall == [pc |-> "idle", rows_left |-> 0, max_results |-> 0, retries |-> 0, rows |-> 0]

\* The cursor while no query is issued (the worker model does not look at it).
NoCursor ==
    /\ now = 0
    /\ job_total = 0
    /\ timeout_msec = 0
    /\ max_rows = 0
    /\ issued = FALSE
    /\ current_row = 0
    /\ has_more_data = FALSE
    /\ start_time = Unset
    /\ total_timeout = Unset
    /\ call = NoCall
    /\ outcome = "none"
    /\ attempts = <<>>
    /\ fetched = 0
    /\ first_fetch = Unset
    /\ calls = 0
    /\ errors = 0

\* The worker while no task is queued (the cursor model does not look at it).
NoWorker ==
    /\ queue = EmptyBag
    /\ bigquery = (Name_locales :> <<>>)
    /\ definitions = ("m1" :> ValidQuery) @@ ("m2" :> BadQuery)
    /\ tables = [m \in MetricNames |-> NoTable]
    /\ shuttingDown = [w \in Workers |-> FALSE]
    /\ pc = [w \in Workers |-> "idle"]
    /\ task = [w \in Workers |-> NoTask]
    /\ job = [w \in Workers |-> NoJob]
    /\ lastExp = NoExp
    /\ lastRun = NoRun
    /\ dups = 0
    /\ shutdowns = 0

CursorInit ==
    /\ NoClient
    /\ NoApi
    /\ NoWorker
    /\ NoLocale
    /\ now = 0
    /\ job_total \in JobTotals
    /\ timeout_msec \in Timeouts
    /\ max_rows \in MaxRowsToRetrieve
    /\ issued = FALSE
    /\ current_row = 0
    /\ has_more_data = FALSE
    /\ start_time = Unset
    /\ total_timeout = Unset
    /\ call = NoCall
    /\ outcome = "none"
    /\ attempts = <<>>
    /\ fetched = 0
    /\ first_fetch = Unset
    /\ calls = 0
    /\ errors = 0

\* IssueQuery: the job is inserted, its row offset starts at 0.
IssueQuery ==
    /\ ~issued
    /\ issued' = TRUE
    /\ current_row' = 0
    /\ has_more_data' = TRUE
    /\ UNCHANGED <<now, job_total, timeout_msec, max_rows, start_time, total_timeout,
                   call, outcome, attempts, fetched, first_fetch, calls, errors>>
    /\ UNCHANGED notCursor

\* HasMoreQueryResults(job_id)
HasMoreQueryResults == issued /\ has_more_data

\* max_results of _GetQueryResponse(job_id, rows_to_retrieve)
MaxResults(rows_to_retrieve) == Min(MAX_RESULTS_PER_PACKET, rows_to_retrieve)

\* The locals of GetQueryResults when it enters _GetQueryResponse.
EnterGetQueryResponse(rows_left, rows) ==
    [pc |-> "fetch", rows_left |-> rows_left, max_results |-> MaxResults(rows_left),
     retries |-> DefaultRetries, rows |-> rows]

\* GetQueryResults up to its first remote call: None when the job has no more
\* data, else the timeout and the start time are set (on every call).
GetQueryResults ==
    /\ issued
    /\ call.pc = "idle"
    /\ calls < MaxCalls
    /\ calls' = calls + 1
    /\ IF ~HasMoreQueryResults
       THEN /\ outcome' = "None"
            /\ UNCHANGED <<total_timeout, start_time, first_fetch, call, attempts>>
       ELSE /\ total_timeout' = timeout_msec
            /\ start_time' = now
            /\ first_fetch' = IF first_fetch = Unset THEN now ELSE first_fetch
            /\ call' = EnterGetQueryResponse(max_rows, 0)
            /\ attempts' = <<>>
            /\ outcome' = "none"
    /\ UNCHANGED <<now, job_total, timeout_msec, max_rows, issued, current_row,
                   has_more_data, fetched, errors>>
    /\ UNCHANGED notCursor

\* _VerifyTimeMSecLeft raises TimeoutError: time_taken >= _total_timeout[job_id]
TimeoutReached == 1000 * (now - start_time) >= total_timeout

\* A handler that catches every exception of the client.
ExceptAnyError(exc) == TRUE

\* `except errors.Error`: the errors of the API client library; the module's
\* own TimeoutError is not one of them.
ExceptErrorsError(exc) == exc = "apiclient.errors.Error"

\* A retry that asks for the same page size again.
KeepSize(max_results) == max_results

\* `max_results /= 2` on integers
Halve(max_results) == max_results \div 2

\* The rows the backend puts in one response: the number asked for (or what is
\* left of the result), or, for the first page, a shorter page.
ResponseRows(max_results, start_index) ==
    LET full == Min(max_results, job_total - start_index)
    IN {full} \cup (IF full >= 2 /\ start_index = 0 THEN {(full + 1) \div 2} ELSE {})

\* A test that still expects rows when the offset is at the total.
PastTotal(row, total_rows) == row > total_rows

\* "Note if all rows have been retrieved": _current_row >= totalRows
AllRetrieved(row, total_rows) == row >= total_rows

\* What a remote call can answer.
Replies == {"rows", "RUNNING", "apiclient.errors.Error"}

Attempt(result) == [start |-> current_row, size |-> call.max_results, result |-> result]
Running(as) == { i \in 1..Len(as) : as[i].result = "RUNNING" }

\* The call ends with an exception.
RaiseFromCall(exc) ==
    /\ outcome' = exc
    /\ call' = NoCall

\* One pass of the loop of _GetQueryResponse (the deadline check, the remote
\* call, the handling of its error) and, when a response has come, the rest
\* of GetQueryResults up to the next _GetQueryResponse or to its return.
GetQueryResponse ==
    /\ call.pc = "fetch"
    /\ \E reply \in Replies :
         LET exc == IF TimeoutReached THEN "TimeoutError" ELSE reply
         IN IF exc # "rows" /\ exc # "RUNNING"
            THEN \* an exception in the try block
                 /\ TimeoutReached \/ errors < MaxErrors
                 /\ errors' = IF TimeoutReached THEN errors ELSE errors + 1
                 /\ attempts' = IF TimeoutReached THEN attempts ELSE Append(attempts, Attempt("error"))
                 /\ IF ExceptErrorsError(exc)
                    THEN IF call.retries > 0
                         THEN /\ now + SleepSeconds <= MaxClock
                              /\ call' = [call EXCEPT !.max_results = Halve(@), !.retries = @ - 1]
                              /\ now' = now + SleepSeconds
                              /\ UNCHANGED outcome
                         ELSE /\ RaiseFromCall("Error")
                              /\ UNCHANGED now
                    ELSE /\ RaiseFromCall(exc)
                         /\ UNCHANGED now
                 /\ UNCHANGED <<current_row, has_more_data, fetched>>
            ELSE IF exc = "RUNNING"
            THEN /\ Cardinality(Running(attempts)) < MaxRunning
                 /\ attempts' = Append(attempts, Attempt("RUNNING"))
                 /\ UNCHANGED <<now, call, outcome, current_row, has_more_data, fetched,
                                errors>>
            ELSE \E n \in ResponseRows(call.max_results, current_row) :
                   LET row == current_row + n
                       rows_left == call.rows_left - n
                   IN /\ current_row' = row
                      /\ fetched' = fetched + n
                      /\ IF rows_left > 0 /\ row < job_total
                         THEN /\ call' = EnterGetQueryResponse(rows_left, call.rows + n)
                              /\ attempts' = <<>>
                              /\ UNCHANGED <<outcome, has_more_data>>
                         ELSE /\ has_more_data' =
                                     IF AllRetrieved(row, job_total) \/ job_total = 0 THEN FALSE
                                     ELSE has_more_data
                              /\ outcome' = IF job_total = 0 THEN "None" ELSE "result"
                              /\ call' = NoCall
                              /\ attempts' = Append(attempts, Attempt("rows"))
                      /\ UNCHANGED <<now, errors>>
    /\ UNCHANGED <<job_total, timeout_msec, max_rows, issued, start_time,
                   total_timeout, first_fetch, calls>>
    /\ UNCHANGED notCursor

\* Time passes.
Tick ==
    /\ now < MaxClock
    /\ now' = now + 1
    /\ UNCHANGED <<job_total, timeout_msec, max_rows, issued, current_row,
                   has_more_data, start_time, total_timeout, call, outcome, attempts,
                   fetched, first_fetch, calls, errors>>
    /\ UNCHANGED notCursor

CursorNext ==
    \/ IssueQuery
    \/ GetQueryResults
    \/ GetQueryResponse
    \/ Tick

\* One cursor, its caller, and the clock.
CursorSpec == CursorInit /\ [][CursorNext]_vars

\* ---------------------------------------------------------------------------
\* The client with several cursors, each wrapped in a QueryResults object
\* (src/common/big_query_backend.py), read bucket by bucket.
\* ---------------------------------------------------------------------------
\* GetQueryResults(job_id, timeout_msec=1000 * 60 * 10, ..): QueryResults
\* passes no timeout.
DefaultTimeoutMsec == 600000

\* Bounds of the client model: the QueryErrors one cursor raises, and the clock.
MaxRaised == 1
MaxClientClock == 1

\* The totalRows of the jobs, the row offsets from which the backend's
\* responses carry the schema, and the max_rows_to_bucket of the wrappers.
ClientTotals == {0, 1500, 4500}
SchemaFrom == {0, 2000}
BucketSizes == {1000, 2500, 10000}

\* An assignment that reaches the entry of every job id.
DictSetAll(d, k, v) == [x \in DOMAIN d \cup {k} |-> v]

\* d[k] = v on a dict
DictSet(d, k, v) == [x \in DOMAIN d \cup {k} |-> IF x = k THEN v ELSE d[x]]

\* The rows the backend puts in one response of a job of `total` rows: the
\* number asked for (or what is left), or, for the first page, a shorter page.
PageRows(max_results, start_index, total) ==
    LET full == Min(max_results, total - start_index)
    IN {full} \cup (IF full >= 2 /\ start_index = 0 THEN {(full + 1) \div 2} ELSE {})

\* An offset that moves by the number of rows asked for.
NextRowAsRequested(row, n, max_results) == row + max_results

\* self._current_row[job_id] += len(response['rows'])
NextRow(row, n, max_results) == row + n

\* A response that never carries a schema.
NoSchema(jb, start_index) == FALSE

\* The rows of the response that starts at start_index, with the columns the
\* caller is given for them.
PageOf(start_index, n, columns) ==
    [from |-> start_index, to |-> start_index + n, columns |-> columns]

\* 'schema' in data and 'fields' in data['schema'], for the response that
\* starts at start_index.
HasSchema(jb, start_index) == start_index >= jb.schema_from

ClientInit ==
    /\ NoWorker
    /\ NoLocale
    /\ NoCursor
    /\ NoApi
    /\ jobs \in [JobIds -> [total : ClientTotals, schema_from : SchemaFrom]]
    /\ client = [current_row |-> <<>>, has_more_data |-> <<>>, start_time |-> <<>>,
                 total_timeout |-> <<>>]
    /\ results = <<>>
    /\ fill = NoFill
    /\ yielded = <<>>
    /\ raised = <<>>

\* QueryResults.__init__: the wrapper is built and IssueQuery opens the cursor.
NewQueryResults(j) ==
    /\ fill.pc = "idle"
    /\ j \notin DOMAIN results
    /\ \E b \in BucketSizes :
         results' = DictSet(results, j, [max_rows_to_bucket |-> b, columns |-> "None"])
    /\ client' = [client EXCEPT !.current_row = DictSet(@, j, 0),
                                !.has_more_data = DictSet(@, j, TRUE)]
    /\ yielded' = DictSet(yielded, j, <<>>)
    /\ raised' = DictSet(raised, j, 0)
    /\ UNCHANGED <<jobs, fill>>
    /\ UNCHANGED notClient

\* HasMoreQueryResults(job_id) of the client.
ClientHasMore(j) == j \in DOMAIN client.has_more_data /\ client.has_more_data[j]

\* One turn of the loop of Rows() with the bucket empty: _FillDataBucket
\* enters GetQueryResults, which sets the timeout and the start time of the
\* job and goes to its first _GetQueryResponse.
FillDataBucket(j) ==
    /\ fill.pc = "idle"
    /\ j \in DOMAIN results
    /\ ClientHasMore(j)
    /\ client' = [client EXCEPT !.total_timeout = DictSet(@, j, DefaultTimeoutMsec),
                                !.start_time = DictSet(@, j, now)]
    /\ fill' = [pc |-> "fetch", job |-> j, rows_left |-> results[j].max_rows_to_bucket,
                rows |-> <<>>, schema |-> FALSE]
    /\ UNCHANGED <<jobs, results, yielded, raised>>
    /\ UNCHANGED notClient

\* _GetQueryResponse raises (the retries are used up, or TimeoutError):
\* _FillDataBucket turns a client Error into QueryError, which leaves Rows().
FillRaises ==
    /\ fill.pc = "fetch"
    /\ raised[fill.job] < MaxRaised
    /\ raised' = [raised EXCEPT ![fill.job] = @ + 1]
    /\ fill' = NoFill
    /\ UNCHANGED <<jobs, client, results, yielded>>
    /\ UNCHANGED notClient

\* _GetQueryResponse returns a response: the rest of GetQueryResults up to the
\* next _GetQueryResponse, or to its return, with what _FillDataBucket keeps
\* of the result and what Rows() yields of it.
FillResponse ==
    /\ fill.pc = "fetch"
    /\ LET j == fill.job
           total == jobs[j].total
           start == client.current_row[j]
       IN \E n \in PageRows(MaxResults(fill.rows_left), start, total) :
            LET row == NextRow(start, n, MaxResults(fill.rows_left))
                rows_left == fill.rows_left - n
                rows == IF n > 0 THEN Append(fill.rows, PageOf(start, n, "fields"))
                        ELSE fill.rows
                schema == fill.schema \/ HasSchema(jobs[j], start)
                no_results == ~schema \/ total = 0
            IN IF rows_left > 0 /\ row < total
               THEN /\ client' = [client EXCEPT !.current_row = DictSet(@, j, row)]
                    /\ fill' = [fill EXCEPT !.rows_left = rows_left, !.rows = rows,
                                            !.schema = schema]
                    /\ UNCHANGED <<results, yielded>>
               ELSE /\ client' = [client EXCEPT
                           !.current_row = DictSet(@, j, row),
                           !.has_more_data =
                               IF AllRetrieved(row, total) \/ no_results
                               THEN DictSet(@, j, FALSE) ELSE @]
                    /\ results' = [results EXCEPT ![j].columns =
                                       IF no_results THEN "None" ELSE "fields"]
                    /\ yielded' = [yielded EXCEPT ![j] =
                                       IF no_results THEN @ ELSE @ \o rows]
                    /\ fill' = NoFill
    /\ UNCHANGED <<jobs, raised>>
    /\ UNCHANGED notClient

\* Time passes between the calls on the client.
ClientTick ==
    /\ now < MaxClientClock
    /\ fill.pc = "idle"
    /\ Tick

ClientNext ==
    \/ \E j \in JobIds :
         \/ NewQueryResults(j)
         \/ FillDataBucket(j)
    \/ FillRaises
    \/ FillResponse
    \/ ClientTick

\* One client, the cursors opened on it, their one caller, and the clock.
ClientSpec == ClientInit /\ [][ClientNext]_vars

\* ---------------------------------------------------------------------------
\* The actions of the locale model.
\* ---------------------------------------------------------------------------

LocaleInit ==
    /\ NoClient
    /\ NoApi
    /\ NoWorker
    /\ NoCursor
    /\ today = 0
    /\ backend \in Backends
    /\ manager = NewManager
    /\ m_call = NoManagerCall
    /\ finder = NewFinder
    /\ reader = [t \in Readers |-> NoRead]
    /\ builds = 0

\* A day passes.
Day ==
    /\ today < MaxDay
    /\ today' = today + 1
    /\ UNCHANGED <<backend, manager, m_call, finder, reader, builds>>
    /\ UNCHANGED notLocale

\* The locale tables of the backend are rewritten (the worker's
\* update_locales task).
LocaleTablesChange ==
    /\ backend.ver < MaxVersion
    /\ backend' = [backend EXCEPT !.ver = @ + 1]
    /\ UNCHANGED <<today, manager, m_call, finder, reader, builds>>
    /\ UNCHANGED notLocale

\* What a call on the manager leaves in the history.
ManagerCall(op, r) ==
    [op |-> op, at |-> today, exc |-> r.exc, failed |-> r.failed,
     first |-> IsNone(manager.locales), loaded |-> r.loaded,
     since |-> m_call.built,
     built |-> IF r.loaded /\ r.exc = "none" THEN today ELSE m_call.built]

\* LocalesManager.LocalesByType (Exists and Locale refresh the same way).
LocalesByType ==
    /\ \E failing \in SUBSET TypeSet :
         LET r == ManagerRefresh(manager, backend, failing, today)
         IN /\ manager' = r.m
            /\ m_call' = ManagerCall("LocalesByType", r)
    /\ UNCHANGED <<today, backend, finder, reader, builds>>
    /\ UNCHANGED notLocale

\* LocalesManager.ForceRefresh: the last refresh time is reset before the
\* refresh, so it stays reset when the refresh fails.
CallForceRefresh ==
    /\ \E failing \in SUBSET TypeSet :
         LET r == ForceRefresh(manager, backend, failing, today)
         IN /\ manager' = IF r.exc = "none" THEN r.m
                          ELSE [manager EXCEPT !.last_refresh = Epoch]
            /\ m_call' = ManagerCall("ForceRefresh", r)
    /\ UNCHANGED <<today, backend, finder, reader, builds>>
    /\ UNCHANGED notLocale

CatalogNext ==
    \/ LocalesByType
    \/ CallForceRefresh
    \/ Day
    \/ LocaleTablesChange

\* One LocalesManager, its callers, the backend and the clock.
CatalogSpec == LocaleInit /\ [][CatalogNext]_vars

\* LocaleFinder.FindNearestNeighbors(lat, lon) begins: FindNearestCountry first.
FindNearestNeighbors(t) ==
    /\ reader[t].pc = "idle"
    /\ \E p \in Points :
         reader' = [reader EXCEPT ![t] = [NoRead EXCEPT !.pc = "refresh", !.k = 1,
                                                        !.lat = p[1], !.lon = p[2]]]
    /\ UNCHANGED <<today, backend, manager, m_call, finder, builds>>
    /\ UNCHANGED notLocale

\* LocaleFinder._Refresh up to its assignments: nothing to do while the trees
\* are fresh, else the trees are built into locals, or the build raises.
FinderRefresh(t) ==
    /\ reader[t].pc = "refresh"
    /\ IF today - finder.last_refresh < LOCALE_REFRESH_RATE
       THEN /\ reader' = [reader EXCEPT ![t].pc = "find"]
            /\ UNCHANGED <<finder, builds>>
       ELSE /\ builds < MaxBuilds
            /\ \E failing \in SUBSET TypeSet, strict \in BOOLEAN :
                 LET r == BuildTrees(backend, failing, strict, today, builds + 1)
                 IN IF r.exc # "none"
                    THEN /\ finder' = FinderAfterFailure(finder, r, backend, builds + 1)
                         /\ reader' = [reader EXCEPT ![t].pc = "idle", ![t].exc = r.exc]
                         /\ UNCHANGED builds
                    ELSE /\ reader' = [reader EXCEPT ![t].pc = "countries",
                                                      ![t].trees = r.trees]
                         /\ builds' = builds + 1
                         /\ UNCHANGED finder
    /\ UNCHANGED <<today, backend, manager, m_call>>
    /\ UNCHANGED notLocale

\* "Update data members": the four assignments of LocaleFinder._Refresh, one
\* statement a step.
UpdateDataMembers(t) ==
    /\ reader[t].pc \in {"countries", "regions", "cities", "last_refresh"}
    /\ CASE reader[t].pc = "countries" ->
               /\ finder' = [finder EXCEPT !.countries = reader[t].trees["country"]]
               /\ reader' = [reader EXCEPT ![t].pc = "regions"]
         [] reader[t].pc = "regions" ->
               /\ finder' = [finder EXCEPT !.regions = reader[t].trees["region"]]
               /\ reader' = [reader EXCEPT ![t].pc = "cities"]
         [] reader[t].pc = "cities" ->
               /\ finder' = [finder EXCEPT !.cities = reader[t].trees["city"]]
               /\ reader' = [reader EXCEPT ![t].pc = "last_refresh"]
         [] OTHER ->
               /\ finder' = [finder EXCEPT !.last_refresh = today]
               /\ reader' = [reader EXCEPT ![t].pc = "find",
                                            ![t].trees = NoRead.trees]
    /\ UNCHANGED <<today, backend, manager, m_call, builds>>
    /\ UNCHANGED notLocale

\* The tree FindNearestCountry, FindNearestRegion or FindNearestCity reads.
TreeOf(locale_type) == finder[Member(locale_type)]

\* self._<trees>.FindNearestNeighbor(lat, lon) of the lookup in progress, then
\* the next lookup of FindNearestNeighbors or its return.
FindNearestNeighbor(t) ==
    /\ reader[t].pc = "find"
    /\ LET locale_type == RefreshOrder[reader[t].k]
           tree == TreeOf(locale_type)
           cart == LatLonToCartesian(reader[t].lat, reader[t].lon)
       IN IF NearestNeighbor(tree.data, cart) = {}
          THEN reader' = [reader EXCEPT ![t].pc = "idle", ![t].exc = "Error"]
          ELSE \E locale \in NearestNeighbor(tree.data, cart) :
                 reader' = [reader EXCEPT
                     ![t].found[locale_type] = [locale |-> locale, build |-> tree.build],
                     ![t].pc = IF reader[t].k < Len(RefreshOrder) THEN "refresh" ELSE "idle",
                     ![t].k = IF reader[t].k < Len(RefreshOrder) THEN @ + 1 ELSE @,
                     ![t].lat = IF reader[t].k < Len(RefreshOrder) THEN @ ELSE 0,
                     ![t].lon = IF reader[t].k < Len(RefreshOrder) THEN @ ELSE 0]
    /\ UNCHANGED <<today, backend, manager, m_call, finder, builds>>
    /\ UNCHANGED notLocale

IndexNext ==
    \/ \E t \in Readers :
         \/ FindNearestNeighbors(t)
         \/ FinderRefresh(t)
         \/ UpdateDataMembers(t)
         \/ FindNearestNeighbor(t)
    \/ Day
    \/ LocaleTablesChange

\* One LocaleFinder, the threads that look up in it, the backend and the clock.
IndexSpec == LocaleInit /\ [][IndexNext]_vars

RequestDates == {NoDate, DATE_FMT(2013, 1), DATE_FMT(2013, 2)}

\* The requests the receiver (or any enqueuer) can put on the queue.
Requests ==
    { Task("delete_metric", m, NoDate) : m \in MetricNames }
    \cup { Task(r, m, d) : r \in {"refresh_metric", "update_metric"},
                           m \in MetricNames \cup {None}, d \in RequestDates }

Init ==
    /\ NoClient
    /\ NoApi
    /\ \E t \in Requests : queue = SetToBag({t})
    /\ bigquery \in BigQueryStates
    /\ definitions = ("m1" :> ValidQuery) @@ ("m2" :> BadQuery)
    /\ tables \in StoreStates
    /\ shuttingDown = [w \in Workers |-> FALSE]
    /\ pc = [w \in Workers |-> "idle"]
    /\ task = [w \in Workers |-> NoTask]
    /\ job = [w \in Workers |-> NoJob]
    /\ lastExp = NoExp
    /\ lastRun = NoRun
    /\ dups = 0
    /\ shutdowns = 0
    /\ NoCursor
    /\ NoLocale

\* ------------------------------------------------------- handler outcomes
\* The handler returns: the task is done and leaves the queue for good.
Return(w) ==
    /\ pc' = [pc EXCEPT ![w] = "idle"]
    /\ task' = [task EXCEPT ![w] = NoTask]
    /\ job' = [job EXCEPT ![w] = NoJob]

\* The handler raises: the request fails and the queue delivers the task again.
Raise(w) ==
    /\ Return(w)
    /\ queue' = queue (+) SetToBag({task[w]})

\* date_tup of the task of w, and the DATE value its SQL statements name.
DateTup(w) == <<job[w].date.year, job[w].date.month>>
SqlDate(w) == SqlDateValue(SqlDateLiteral(DateTup(w)))

\* The rows of a data table for one date.
RowsAt(rows, date) == [r \in { x \in DOMAIN rows : x.date = date } |-> rows[r]]

\* History of the runs that reached FINISHED: consecutive runs for the same
\* (metric, month) keep the rows the first left and the rows the last left.
Finished(w, rows, written) ==
    LET m == task[w].metric
        at == RowsAt(rows, SqlDate(w))
    IN IF lastRun.valid /\ lastRun.metric = m /\ lastRun.date = job[w].date
       THEN [lastRun EXCEPT !.n = 2, !.last = at, !.written = written]
       ELSE [valid |-> TRUE, metric |-> m, date |-> job[w].date, n |-> 1,
             first |-> at, last |-> at, written |-> written, cut |-> lastRun.cut]

\* A DROP or DELETE between two runs: they are no longer runs in sequence.
Forget(m, dates) ==
    IF lastRun.valid /\ lastRun.metric = m /\ lastRun.date \in dates THEN NoRun ELSE lastRun

AllDates == { PyDate(2013, mm) : mm \in 1..12 }

\* ----------------------------------------------------------------- worker
\* The queue hands a task to an idle worker (POST /_ah/task).
Deliver(w) ==
    /\ pc[w] = "idle"
    /\ \E t \in BagToSet(queue) :
         /\ queue' = queue (-) SetToBag({t})
         /\ task' = [task EXCEPT ![w] = t]
    /\ pc' = [pc EXCEPT ![w] = "post"]
    /\ job' = [job EXCEPT ![w] = NoJob]
    /\ UNCHANGED <<bigquery, definitions, tables, shuttingDown, lastExp, lastRun,
                   dups, shutdowns>>
    /\ UNCHANGED notWorker

\* TaskRequestHandler.post: parse the date parameter, dispatch on the request.
Post(w) ==
    /\ pc[w] = "post"
    /\ LET t == task[w]
           parses == DATE_RE(t.date) /\ ValidDate(MatchYear(t.date), MatchMonth(t.date))
       IN IF t.date # NoDate /\ ~parses
          THEN \* match is None (AttributeError), or datetime.date raises ValueError
               /\ Raise(w)
          ELSE /\ pc' = [pc EXCEPT ![w] =
                      IF t.request = "delete_metric" THEN "DeleteMetric"
                      ELSE IF t.request = "refresh_metric" THEN "RefreshMetric"
                      ELSE "UpdateMetric"]
               /\ job' = [job EXCEPT ![w].date =
                      IF t.date = NoDate THEN NoPyDate
                      ELSE PyDate(MatchYear(t.date), MatchMonth(t.date))]
               /\ UNCHANGED <<queue, task>>
    /\ UNCHANGED <<bigquery, definitions, tables, shuttingDown, lastExp, lastRun,
                   dups, shutdowns>>
    /\ UNCHANGED notWorker

\* MetricWorker.DeleteMetric, up to the first statement sent to the store.
DeleteMetric(w) ==
    /\ pc[w] = "DeleteMetric"
    /\ IF shuttingDown[w]
       THEN Return(w)
       ELSE /\ pc' = [pc EXCEPT ![w] = "DeleteMetricInfo"]
            /\ UNCHANGED <<task, job>>
    /\ UNCHANGED <<queue, bigquery, definitions, tables, shuttingDown, lastExp,
                   lastRun, dups, shutdowns>>
    /\ UNCHANGED notWorker

\* A DeleteMetricInfo that leaves the definitions table as it is.
KeepMetricInfo(infos, metric_name) == infos

\* CloudSQLBackend.DeleteMetricInfo: DELETE FROM definitions WHERE name=metric_name
CloudSQLDeleteMetricInfo(infos, metric_name) ==
    [m \in DOMAIN infos \ {metric_name} |-> infos[m]]

\* _DeleteMetricInfo(metric)
DeleteMetricInfo(w) ==
    /\ pc[w] = "DeleteMetricInfo"
    /\ definitions' = CloudSQLDeleteMetricInfo(definitions, task[w].metric)
    /\ pc' = [pc EXCEPT ![w] = "DeleteMetricData"]
    /\ UNCHANGED <<queue, bigquery, tables, shuttingDown, task, job, lastExp,
                   lastRun, dups, shutdowns>>
    /\ UNCHANGED notWorker

\* _DeleteMetricData(metric): DROP TABLE metric
DeleteMetricData(w) ==
    /\ pc[w] = "DeleteMetricData"
    /\ LET m == task[w].metric
       IN IF tables[m].exists
          THEN /\ tables' = [tables EXCEPT ![m] = NoTable]
               /\ lastRun' = Forget(m, AllDates)
               /\ Return(w)
               /\ UNCHANGED queue
          ELSE /\ Raise(w)
               /\ UNCHANGED <<tables, lastRun>>
    /\ UNCHANGED <<bigquery, definitions, shuttingDown, lastExp, dups, shutdowns>>
    /\ UNCHANGED notWorker

\* The tasks _ExpandMetricRequest sends when the metric is missing: one per
\* metric of the definitions table, the date passed on as post() parsed it.
ExpandMetrics(request_type, date, metric_infos) ==
    { Task(request_type, m, IF date = NoPyDate THEN NoDate ELSE TaskParamOfDate(date)) :
        m \in DOMAIN metric_infos }

\* An expansion that leaves out the months with datapoints for every request.
MissingDatesOnly(request_type, bq_dates, rows) == bq_dates \ CloudSQLExistingDates(rows)

\* dates_to_compute of _ExpandMetricRequest when the date is missing.
\* `rows` are the rows of the metric's data table, which only a refresh reads.
DatesToCompute(request_type, bq_dates, rows) ==
    IF request_type = "refresh_metric" THEN bq_dates \ CloudSQLExistingDates(rows)
    ELSE bq_dates

\* The tasks _ExpandMetricRequest sends when the date is missing.
ExpandDates(request_type, metric, dates_to_compute) ==
    { Task(request_type, metric, DATE_FMT(d.year, d.month)) : d \in dates_to_compute }

\* RefreshMetric / UpdateMetric with the metric or the date missing:
\* _ExpandMetricRequest, every task sent through the queue.
ExpandMetricRequest(w) ==
    /\ pc[w] \in {"RefreshMetric", "UpdateMetric"}
    /\ task[w].metric = None \/ job[w].date = NoPyDate
    /\ LET t == task[w]
           needs_cs == t.metric # None /\ t.request = "refresh_metric"
       IN IF needs_cs /\ ~tables[t.metric].exists
          THEN \* SELECT DISTINCT date FROM a table that does not exist
               /\ Raise(w)
               /\ lastExp' = [valid |-> TRUE, task |-> t, sent |-> EmptyBag, failed |-> TRUE,
                              exc |-> "none"]
          ELSE LET sent ==
                     IF t.metric = None
                     THEN ExpandMetrics(t.request, job[w].date, definitions)
                     ELSE ExpandDates(t.request, t.metric,
                              DatesToCompute(t.request, BigQueryExistingDates(bigquery),
                                  tables[t.metric].rows))
               IN /\ queue' = queue (+) SetToBag(sent)
                  /\ lastExp' = [valid |-> TRUE, task |-> t, sent |-> SetToBag(sent),
                                 failed |-> FALSE, exc |-> "none"]
                  /\ Return(w)
    /\ UNCHANGED <<bigquery, definitions, tables, shuttingDown, lastRun, dups, shutdowns>>
    /\ UNCHANGED notWorker

\* CREATE TABLE IF NOT EXISTS metric (locale, date, value)
CreateMetricDataTable(tbls, m) ==
    IF tbls[m].exists THEN tbls ELSE [tbls EXCEPT ![m] = EmptyTable]

\* RefreshMetric with metric and date: the shutdown check only logs.
RefreshMetric(w) ==
    /\ pc[w] = "RefreshMetric"
    /\ task[w].metric # None /\ job[w].date # NoPyDate
    /\ tables' = CreateMetricDataTable(tables, task[w].metric)
    /\ pc' = [pc EXCEPT ![w] = "ComputeMetricData"]
    /\ UNCHANGED <<queue, bigquery, definitions, shuttingDown, task, job, lastExp,
                   lastRun, dups, shutdowns>>
    /\ UNCHANGED notWorker

\* UpdateMetric with metric and date: return when shutting down.
UpdateMetric(w) ==
    /\ pc[w] = "UpdateMetric"
    /\ task[w].metric # None /\ job[w].date # NoPyDate
    /\ IF shuttingDown[w]
       THEN /\ Return(w)
            /\ UNCHANGED tables
       ELSE /\ tables' = CreateMetricDataTable(tables, task[w].metric)
            /\ pc' = [pc EXCEPT ![w] = "DeleteMetricDataDate"]
            /\ UNCHANGED <<task, job>>
    /\ UNCHANGED <<queue, bigquery, definitions, shuttingDown, lastExp, lastRun,
                   dups, shutdowns>>
    /\ UNCHANGED notWorker

\* _DeleteMetricData(metric, date): DELETE FROM metric WHERE date=..
DeleteMetricDataDate(w) ==
    /\ pc[w] = "DeleteMetricDataDate"
    /\ LET m == task[w].metric
       IN IF tables[m].exists
          THEN /\ tables' = [tables EXCEPT ![m].rows = SqlDeleteDate(@, SqlDate(w))]
               /\ lastRun' = Forget(m, {job[w].date})
               /\ pc' = [pc EXCEPT ![w] = "ComputeMetricData"]
               /\ UNCHANGED <<queue, task, job>>
          ELSE /\ Raise(w)
               /\ UNCHANGED <<tables, lastRun>>
    /\ UNCHANGED <<bigquery, definitions, shuttingDown, lastExp, dups, shutdowns>>
    /\ UNCHANGED notWorker

\* The parameters of _STANDARD_QUERY_PARAMS the query does not mention.
MissingParams(query) == { param \in STANDARD_QUERY_PARAMS : param \notin query }

\* _ComputeMetricData up to the first page fetch: read the metric's query,
\* check its parameters, issue one query per country split.
ComputeMetricData(w) ==
    /\ pc[w] = "ComputeMetricData"
    /\ LET m == task[w].metric
       IN IF m \notin DOMAIN definitions
          THEN \* GetMetricInfo: result['data'][0] of no rows (IndexError)
               Raise(w)
          ELSE IF MissingParams(definitions[m]) # {}
          THEN /\ Return(w)
               /\ UNCHANGED queue
          ELSE /\ pc' = [pc EXCEPT ![w] = "Rows"]
               /\ job' = [job EXCEPT ![w].rs = 1, ![w].page = 0]
               /\ UNCHANGED <<queue, task>>
    /\ UNCHANGED <<bigquery, definitions, tables, shuttingDown, lastExp, lastRun,
                   dups, shutdowns>>
    /\ UNCHANGED notWorker

\* A row loop that stops after the first result set.
FirstResultSet(rs) == rs >= 1

\* `for result_set in results`: rs is the last of the result sets, one per
\* country split.
LastResultSet(rs) == rs >= Len(COUNTRY_SPLITS)

\* A generator in which StopIteration is raised and leaves the frame.
StopIterationEscapes == "raises"

\* `raise StopIteration` in the generator QueryResults.Rows, when the bucket
\* stays empty: the iteration ends and the caller's loop is over.
StopIterationInGenerator == "ends"

\* QueryResults.Rows over the result sets, one page fetch (_GetQueryResponse)
\* at a time; after the last page of the last result set, the threshold filter.
FetchPage(w) ==
    /\ pc[w] = "Rows"
    /\ LET m == task[w].metric
           table == DATE_TABLES_FMT(DateTup(w))
           pages == QueryPages(bigquery, table, COUNTRY_SPLITS[job[w].rs])
           k == job[w].page + 1
           got == k <= Len(pages)
           mv == IF got THEN BucketRows(job[w].metric_values, pages[k])
                 ELSE job[w].metric_values
           total == IF got THEN job[w].total_rows + pages[k].n ELSE job[w].total_rows
           exhausted == k >= Len(pages)
           order == WriteOrder(mv, LocaleTypes)
       IN IF table \notin DOMAIN bigquery
          THEN \* the query names a table that does not exist (QueryError)
               /\ Raise(w)
               /\ UNCHANGED lastRun
          ELSE IF ~got /\ StopIterationInGenerator # "ends"
          THEN /\ Raise(w)
               /\ UNCHANGED lastRun
          ELSE IF ~exhausted
          THEN /\ job' = [job EXCEPT ![w].page = k, ![w].metric_values = mv,
                                     ![w].total_rows = total]
               /\ UNCHANGED <<queue, pc, task, lastRun>>
          ELSE IF ~LastResultSet(job[w].rs)
          THEN /\ job' = [job EXCEPT ![w].rs = @ + 1, ![w].page = 0,
                                     ![w].metric_values = mv, ![w].total_rows = total]
               /\ UNCHANGED <<queue, pc, task, lastRun>>
          ELSE IF total = 0
          THEN \* 'Query produced no results.'
               /\ Return(w)
               /\ UNCHANGED <<queue, lastRun>>
          ELSE IF order = <<>>
          THEN /\ lastRun' = Finished(w, tables[m].rows, {})
               /\ Return(w)
               /\ UNCHANGED queue
          ELSE /\ job' = [job EXCEPT ![w].page = k, ![w].metric_values = mv,
                                     ![w].total_rows = total, ![w].pending = order,
                                     ![w].median = Median(mv[order[1].type][order[1].locale])]
               /\ pc' = [pc EXCEPT ![w] = "SetMetricData"]
               /\ UNCHANGED <<queue, task, lastRun>>
    /\ UNCHANGED <<bigquery, definitions, tables, shuttingDown, lastExp, dups, shutdowns>>
    /\ UNCHANGED notWorker

\* SetMetricData, first statement: DELETE FROM metric WHERE locale=.. AND date=..
SetMetricDataDelete(w) ==
    /\ pc[w] = "SetMetricData"
    /\ LET m == task[w].metric
           locale == Head(job[w].pending).locale
       IN IF tables[m].exists
          THEN /\ tables' = [tables EXCEPT ![m].rows = SqlDeleteLocaleDate(@, locale, SqlDate(w))]
               /\ pc' = [pc EXCEPT ![w] = "SetMetricDataInsert"]
               /\ UNCHANGED <<queue, task, job>>
          ELSE /\ Raise(w)
               /\ UNCHANGED tables
    /\ UNCHANGED <<bigquery, definitions, shuttingDown, lastExp, lastRun, dups, shutdowns>>
    /\ UNCHANGED notWorker

\* SetMetricData, second statement: INSERT INTO metric SET locale, date, value;
\* then the next bucket, or FINISHED.
SetMetricDataInsert(w) ==
    /\ pc[w] = "SetMetricDataInsert"
    /\ LET m == task[w].metric
           b == Head(job[w].pending)
           rest == Tail(job[w].pending)
           value == FormatF(job[w].median)
           rows == SqlInsert(tables[m].rows, DataRow(b.locale, SqlDate(w), value))
           written == job[w].written \cup
                          {[type |-> b.type, locale |-> b.locale, value |-> value]}
       IN IF ~tables[m].exists
          THEN /\ Raise(w)
               /\ UNCHANGED <<tables, lastRun>>
          ELSE /\ tables' = [tables EXCEPT ![m].rows = rows]
               /\ IF rest = <<>>
                  THEN /\ lastRun' = Finished(w, rows, written)
                       /\ Return(w)
                  ELSE /\ job' = [job EXCEPT ![w].pending = rest, ![w].written = written,
                                     ![w].median = Median(job[w].metric_values[rest[1].type][rest[1].locale])]
                       /\ pc' = [pc EXCEPT ![w] = "SetMetricData"]
                       /\ UNCHANGED <<task, lastRun>>
               /\ UNCHANGED queue
    /\ UNCHANGED <<bigquery, definitions, shuttingDown, lastExp, dups, shutdowns>>
    /\ UNCHANGED notWorker

\* History: where the attempt of w is when a failure cuts it short.
Cut(w) ==
    [valid |-> TRUE, metric |-> task[w].metric, date |-> job[w].date, pc |-> pc[w],
     total_rows |-> job[w].total_rows, written |-> job[w].written]

\* CloudSQLClient.Query raises (rdbms.connect or cursor.execute fails) on the
\* DELETE or on the INSERT of a SetMetricData: the exception leaves the
\* handler, the request fails and the queue delivers the task again.  The
\* attempt is no run in sequence with the runs before and after it.
QueryFails(w) ==
    /\ pc[w] \in {"SetMetricData", "SetMetricDataInsert"}
    /\ Raise(w)
    /\ lastRun' = [NoRun EXCEPT !.cut = Cut(w)]
    /\ UNCHANGED <<bigquery, definitions, tables, shuttingDown, lastExp, dups, shutdowns>>
    /\ UNCHANGED notWorker

\* A handler that lets the load error go.
ExceptNothing(exc) == FALSE

\* `except backend_interface.LoadError`
ExceptLoadError(exc) == exc = "LoadError"

\* What the listing of the metrics can fail with: the load error of the
\* backend interface, or the error of the database driver as it is.
ListingErrors == {"LoadError", "DatabaseError"}

\* _ExpandMetricRequest with the metric missing, when GetMetricInfo() raises:
\* a LoadError is logged and the request is dropped ('Dropping request'),
\* any other exception leaves the handler.
GetMetricInfoFails(w) ==
    /\ pc[w] \in {"RefreshMetric", "UpdateMetric"}
    /\ task[w].metric = None
    /\ \E exc \in ListingErrors :
         /\ lastExp' = [valid |-> TRUE, task |-> task[w], sent |-> EmptyBag,
                        failed |-> TRUE, exc |-> exc]
         /\ IF ExceptLoadError(exc)
            THEN /\ Return(w)
                 /\ UNCHANGED queue
            ELSE Raise(w)
    /\ UNCHANGED <<bigquery, definitions, tables, shuttingDown, lastRun, dups, shutdowns>>
    /\ UNCHANGED notWorker

\* GetQueryResults raises while QueryResults.Rows fills its buffer: the
\* QueryError leaves the row loop and the handler, and the task is delivered
\* again.
CursorFails(w) ==
    /\ pc[w] = "Rows"
    /\ Raise(w)
    /\ lastRun' = [NoRun EXCEPT !.cut = Cut(w)]
    /\ UNCHANGED <<bigquery, definitions, tables, shuttingDown, lastExp, dups, shutdowns>>
    /\ UNCHANGED notWorker

\* ------------------------------------------------------------ environment
\* The queue delivers a task more than once.
Duplicate ==
    /\ dups < MaxDup
    /\ \E t \in BagToSet(queue) : queue' = queue (+) SetToBag({t})
    /\ dups' = dups + 1
    /\ UNCHANGED <<bigquery, definitions, tables, shuttingDown, pc, task, job,
                   lastExp, lastRun, shutdowns>>
    /\ UNCHANGED notWorker

\* The runtime tells a worker instance to shut down.
Shutdown(w) ==
    /\ ~shuttingDown[w]
    /\ shutdowns < MaxShutdowns
    /\ shuttingDown' = [shuttingDown EXCEPT ![w] = TRUE]
    /\ shutdowns' = shutdowns + 1
    /\ UNCHANGED <<queue, bigquery, definitions, tables, pc, task, job, lastExp,
                   lastRun, dups>>
    /\ UNCHANGED notWorker

\* A worker instance that has stopped is started again.
Restart(w) ==
    /\ shuttingDown[w]
    /\ pc[w] = "idle"
    /\ shuttingDown' = [shuttingDown EXCEPT ![w] = FALSE]
    /\ UNCHANGED <<queue, bigquery, definitions, tables, pc, task, job, lastExp,
                   lastRun, dups, shutdowns>>
    /\ UNCHANGED notWorker

\* ---------------------------------------------------------- specifications
Handle(w) ==
    \/ Deliver(w)
    \/ Post(w)
    \/ DeleteMetric(w)
    \/ DeleteMetricInfo(w)
    \/ DeleteMetricData(w)
    \/ ExpandMetricRequest(w)
    \/ RefreshMetric(w)
    \/ UpdateMetric(w)
    \/ DeleteMetricDataDate(w)
    \/ ComputeMetricData(w)
    \/ FetchPage(w)
    \/ SetMetricDataDelete(w)
    \/ SetMetricDataInsert(w)

Next ==
    \/ Handle("w1")
    \/ Duplicate
    \/ Shutdown("w1")
    \/ Restart("w1")

\* One worker that handles the tasks one after the other, with duplicate
\* deliveries and a shutdown signal that can come at any moment.
Spec == Init /\ [][Next]_vars

\* The same worker left alone, which goes on as long as it has something to do.
FairNext == Handle("w1")
FairSpec == Init /\ [][FairNext]_vars /\ WF_vars(FairNext)

\* A pool of two workers on one queue.
PoolRequests ==
    { Task("delete_metric", "m1", NoDate),
      Task("refresh_metric", "m1", DATE_FMT(2013, 1)),
      Task("update_metric", "m1", NoDate) }

PoolInit ==
    /\ NoClient
    /\ NoApi
    /\ \E t \in PoolRequests : queue = SetToBag({t})
    /\ bigquery = (Name_2013_01 :> Table_2013_01) @@ (Name_2013_02 :> <<>>)
                      @@ (Name_0999_01 :> <<>>)
    /\ definitions = ("m1" :> ValidQuery) @@ ("m2" :> BadQuery)
    /\ tables \in StoreStates
    /\ shuttingDown = [w \in Workers |-> FALSE]
    /\ pc = [w \in Workers |-> "idle"]
    /\ task = [w \in Workers |-> NoTask]
    /\ job = [w \in Workers |-> NoJob]
    /\ lastExp = NoExp
    /\ lastRun = NoRun
    /\ dups = 0
    /\ shutdowns = 0
    /\ NoCursor
    /\ NoLocale

PoolNext ==
    \/ \E w \in Workers : Handle(w)
    \/ Duplicate

PoolSpec == PoolInit /\ [][PoolNext]_vars

\* One worker whose calls to the two backends can fail.
RetryNext ==
    \/ Handle("w1")
    \/ QueryFails("w1")
    \/ CursorFails("w1")
    \/ GetMetricInfoFails("w1")

RetrySpec == Init /\ [][RetryNext]_vars

\* ------------------------------------------------------------------ claims
\* The store holds at most one row per (metric, month, locale).
OneRowPerKey(rows) ==
    \A r \in DOMAIN rows :
        /\ rows[r] = 1
        /\ \A q \in DOMAIN rows : (q.locale = r.locale /\ q.date = r.date) => q = r

\* C1: in every reachable state of the relational store there is at most one
\* datapoint row per (metric, month, locale), under any interleaving of the
\* workers, the same terminal task delivered twice included.
C1_UniqueDatapoint == \A m \in MetricNames : OneRowPerKey(tables[m].rows)

\* A run in sequence after a run for the same (metric, month) has FINISHED.
SecondRunDone == lastRun.valid /\ lastRun.n = 2

\* C2: running the terminal compute for one (metric, month) twice in sequence
\* on the same analytical input leaves the same stored datapoints (same keys,
\* same values) as running it once.
C2_TwiceSameAsOnce == SecondRunDone => lastRun.last = lastRun.first

C2_Witness == SecondRunDone /\ BagCardinality(lastRun.first) >= 4

\* The bucket of a row at each granularity, and the samples of a bucket, taken
\* from the rows of the month table themselves.
KeyOf(type, row) ==
    IF type = "city" THEN CityKey(row)
    ELSE IF type = "region" THEN RegionKey(row)
    ELSE IF type = "country" THEN CountryKey(row)
    ELSE WorldKey

RunsOf(date) ==
    LET table == DATE_TABLES_FMT(<<date.year, date.month>>)
    IN IF table \in DOMAIN bigquery THEN bigquery[table] ELSE <<>>

RECURSIVE SamplesIn(_, _, _)
SamplesIn(runs, type, locale) ==
    IF runs = <<>> THEN EmptyBag
    ELSE LET rest == SamplesIn(Tail(runs), type, locale)
         IN IF KeyOf(type, Head(runs).row) = locale
            THEN rest (+) (Head(runs).row.value :> Head(runs).n)
            ELSE rest

BucketsOf(date) ==
    { [type |-> LocaleTypes[i], locale |-> KeyOf(LocaleTypes[i], RunsOf(date)[j].row)] :
        i \in 1..Len(LocaleTypes), j \in 1..Len(RunsOf(date)) }
SampleCount(b, date) == BagCardinality(SamplesIn(RunsOf(date), b.type, b.locale))

BucketsWritten(written) == { [type |-> x.type, locale |-> x.locale] : x \in written }

\* C3: a terminal compute writes no datapoint for a bucket (of any of the four
\* granularities) with fewer than 100 samples, and once it has finished it has
\* written one for every bucket with 100 samples or more.
C3_ThresholdFilter ==
    /\ \A w \in Workers : \A b \in BucketsWritten(job[w].written) :
           SampleCount(b, job[w].date) >= 100
    /\ lastRun.valid =>
           BucketsWritten(lastRun.written) =
               { b \in BucketsOf(lastRun.date) : SampleCount(b, lastRun.date) >= 100 }

C3_Witness ==
    /\ lastRun.valid
    /\ \E b \in BucketsWritten(lastRun.written) : SampleCount(b, lastRun.date) = 100
    /\ \E b \in BucketsOf(lastRun.date) :
           SampleCount(b, lastRun.date) = 99 /\ b \notin BucketsWritten(lastRun.written)

\* The statistical median of a bag of samples: the midpoint of the least value
\* with half of the samples at or below it and the greatest value with half of
\* the samples at or above it.
AtMost(samples, v) == BagCardinality([u \in { x \in DOMAIN samples : x <= v } |-> samples[u]])
AtLeast(samples, v) == BagCardinality([u \in { x \in DOMAIN samples : x >= v } |-> samples[u]])
StatMedian(samples) ==
    LET n == BagCardinality(samples)
        lo == CHOOSE v \in DOMAIN samples :
                 /\ 2 * AtMost(samples, v) >= n
                 /\ \A u \in DOMAIN samples : 2 * AtMost(samples, u) >= n => v <= u
        hi == CHOOSE v \in DOMAIN samples :
                 /\ 2 * AtLeast(samples, v) >= n
                 /\ \A u \in DOMAIN samples : 2 * AtLeast(samples, u) >= n => u <= v
    IN (lo + hi) \div 2

\* The multiple of 10^-6 (20 units) nearest to a value.
Micro(value) == CHOOSE k \in { 20 * (value \div 20), 20 * (value \div 20) + 20 } :
                    \A j \in { 20 * (value \div 20), 20 * (value \div 20) + 20 } :
                        (IF k > value THEN k - value ELSE value - k)
                            <= (IF j > value THEN j - value ELSE value - j)

ExactMedian(b, date) == StatMedian(SamplesIn(RunsOf(date), b.type, b.locale))

\* The values the store holds for a locale among the rows of one month.
StoredValues(rows, locale) == { r.value : r \in { x \in DOMAIN rows : x.locale = locale } }

MonthTables == { n \in DOMAIN bigquery : DATE_RE(n) }

\* The store holds a datapoint of the metric for the month the table name says.
HasDatapoints(m, n) ==
    \E r \in DOMAIN tables[m].rows :
        r.date.year = MatchYear(n) /\ r.date.month = MatchMonth(n)

\* Worker w handles, in this step, a request of this kind that names a
\* metric and no date.
ExpandsDates(w, request) ==
    /\ pc[w] \in {"RefreshMetric", "UpdateMetric"}
    /\ task[w].request = request
    /\ task[w].metric # None
    /\ task[w].date = NoDate
    /\ pc'[w] = "idle"

\* C5: handling a refresh request that names a metric and no date enqueues
\* exactly one refresh task for each month that has a table in the analytical
\* backend and no datapoint of the metric in the relational backend, and no
\* other task.
C5_RefreshExpandsMissingMonths ==
    [][\A w \in Workers :
          ExpandsDates(w, "refresh_metric") =>
              queue' = queue (+) SetToBag(
                  { Task("refresh_metric", task[w].metric, n) :
                      n \in { x \in MonthTables : ~HasDatapoints(task[w].metric, x) } })]_vars

\* The last expansion was of an update request that names a metric and no date.
UpdateExpanded ==
    /\ lastExp.valid
    /\ lastExp.task.request = "update_metric"
    /\ lastExp.task.metric # None
    /\ lastExp.task.date = NoDate

\* C6: handling an update request that names a metric and no date enqueues
\* exactly one update task for every month that exists in the analytical
\* backend, whether or not the store holds datapoints for the month.
C6_UpdateExpandsAllMonths ==
    UpdateExpanded =>
        /\ ~lastExp.failed
        /\ lastExp.sent =
               SetToBag({ Task("update_metric", lastExp.task.metric, n) : n \in MonthTables })

C6_Witness ==
    /\ UpdateExpanded
    /\ \E n \in MonthTables : HasDatapoints(lastExp.task.metric, n)
    /\ BagCardinality(lastExp.sent) = 2

\* C7: handling a refresh or update request with no metric enqueues exactly
\* one task per metric of the relational backend, each with the request kind
\* and the date (if any) of the request, and nothing else.
C7_ExpandsMetrics ==
    [][\A w \in Workers :
          (/\ pc[w] \in {"RefreshMetric", "UpdateMetric"}
           /\ task[w].metric = None
           /\ pc'[w] = "idle")
          => queue' = queue (+) SetToBag(
                 { Task(task[w].request, m, task[w].date) : m \in DOMAIN definitions })]_vars

\* What a task specifies of (metric, date).
Specified(t) == (IF t.metric # None THEN {"metric"} ELSE {})
                    \cup (IF t.date # NoDate THEN {"date"} ELSE {})

\* The tasks a step adds to the queue.
Enqueued == { t \in BagToSet(queue') : CopiesIn(t, queue') > CopiesIn(t, queue) }

\* The request the specification starts with.
StartsWithRefreshOrUpdate ==
    \A t \in BagToSet(queue) :
        /\ t.request \in {"refresh_metric", "update_metric"}
        /\ t.metric # None => t.metric \in DOMAIN definitions
        /\ t.date # NoDate => t.date \in MonthTables

Drained == queue = EmptyBag /\ \A w \in Workers : pc[w] = "idle"

\* C8: from one refresh or update request, with no backend failure, every task
\* enqueued while a request is handled specifies strictly more of (metric,
\* date) than the request, a fully specified task enqueues nothing, and the
\* queue eventually becomes empty.
C8_ExpansionTerminates ==
    /\ [][\A w \in Workers :
             (pc[w] # "idle" /\ lastExp' # lastExp /\ ~lastExp'.failed) =>
                 \A t \in Enqueued :
                     /\ Specified(task[w]) \subseteq Specified(t)
                     /\ Specified(task[w]) # Specified(t)]_vars
    /\ [][\A w \in Workers :
             (pc[w] # "idle" /\ Specified(task[w]) = {"metric", "date"}) =>
                 Enqueued \subseteq {task[w]}]_vars
    /\ (StartsWithRefreshOrUpdate => <>[]Drained)

\* C9: if the shutdown signal is set when a fully specified delete_metric,
\* refresh_metric or update_metric task starts its work, the task stops at
\* once: it returns without an error and changes nothing in the store.
C9_CancelledAtStart ==
    [][\A w \in Workers :
          (/\ shuttingDown[w]
           /\ \/ pc[w] = "DeleteMetric"
              \/ pc[w] \in {"RefreshMetric", "UpdateMetric"}
                     /\ Specified(task[w]) = {"metric", "date"}
           /\ pc'[w] # pc[w])
          => /\ pc'[w] = "idle"
             /\ queue' = queue
             /\ tables' = tables
             /\ definitions' = definitions]_vars

\* C10: if the shutdown signal is set while a terminal compute fetches pages
\* or writes buckets, the task sees it after the page fetch or bucket write in
\* progress: it fetches no further page and writes no further bucket.
C10_CancelledAtSuspensionPoint ==
    [][\A w \in Workers :
          (/\ shuttingDown[w]
           /\ pc[w] \in {"Rows", "SetMetricDataInsert"}
           /\ job'[w] # job[w])
          => pc'[w] \notin {"Rows", "SetMetricData", "SetMetricDataInsert"}]_vars
\* The metric of the task of w is defined by a query that lacks one of the
\* standard parameters, and the task names the metric and the date.
BadTemplateTask(w) ==
    /\ pc[w] \notin {"idle", "post"}
    /\ task[w].request \in {"refresh_metric", "update_metric"}
    /\ Specified(task[w]) = {"metric", "date"}
    /\ task[w].metric \in DOMAIN definitions
    /\ MissingParams(definitions[task[w].metric]) # {}

\* C11: a terminal refresh or update task for a metric whose query lacks a
\* standard parameter leaves the datapoints stored for the metric as they
\* were: none of its steps writes or deletes a datapoint of the metric.
C11_BadTemplateChangesNothing ==
    [][\A w \in Workers :
          BadTemplateTask(w) =>
              tables'[task[w].metric].rows = tables[task[w].metric].rows]_vars

\* Every query of the terminal compute of w (one per country split) has no
\* row in the month table, which exists.
ZeroRowMonth(w) ==
    LET table == DATE_TABLES_FMT(DateTup(w))
    IN /\ table \in DOMAIN bigquery
       /\ \A i \in 1..Len(COUNTRY_SPLITS) :
              SelectRuns(bigquery[table], COUNTRY_SPLITS[i]) = <<>>

BudgetElapsedAtCall ==
    /\ first_fetch # Unset
    /\ start_time # Unset
    /\ 1000 * (start_time - first_fetch) >= timeout_msec

\* C13: a cursor has one deadline for its whole lifetime: a fetch call made once
\* the time budget measured from the cursor's first fetch has elapsed makes no
\* remote attempt and ends with the deadline error, however many calls
\* succeeded before it.
C13_OneDeadlinePerLifetime ==
    BudgetElapsedAtCall =>
        /\ attempts = <<>>
        /\ call.pc = "idle" => outcome = "TimeoutError"

\* A pass of the loop of _GetQueryResponse taken when the deadline of the call
\* is already exceeded.
PassAfterDeadline ==
    /\ call.pc = "fetch"
    /\ TimeoutReached
    /\ <<call, outcome, attempts>>' # <<call, outcome, attempts>>

\* C14: a fetch made when the deadline is already exceeded (in particular with
\* a timeout of 0 msec) ends the call with the deadline error, issues no remote
\* page fetch, and does not go through the retry handling (no sleep, no retry
\* used, no page size halved).
C14_DeadlineExceededNoFetch ==
    [][PassAfterDeadline =>
          /\ outcome' = "TimeoutError"
          /\ call' = NoCall
          /\ attempts' = attempts
          /\ errors' = errors
          /\ now' = now
          /\ <<current_row, fetched, has_more_data>>' = <<current_row, fetched, has_more_data>>]_vars

\* The first call of a cursor read with a timeout of 0 msec ended with the
\* deadline error without any remote attempt.
C14_Witness ==
    /\ timeout_msec = 0
    /\ calls = 1
    /\ call.pc = "idle"
    /\ outcome = "TimeoutError"
    /\ attempts = <<>>
    /\ fetched = 0

\* The attempts of the page fetch in progress (or of the last one) that failed
\* with a backend error.
Failed(as) == { i \in 1..Len(as) : as[i].result = "error" }

\* C15: on backend errors one page fetch fails at most 1 + 4 times, every
\* attempt of it asks for the same start offset, the attempt after a failed one
\* asks for half its page size (integer halving), the retries left are 4 less
\* the failures, and the error reaches the caller exactly when the attempt
\* after the fourth retry has failed.
C15_RetryHalving ==
    /\ Cardinality(Failed(attempts)) <= 1 + DefaultRetries
    /\ \A i, j \in 1..Len(attempts) : attempts[i].start = attempts[j].start
    /\ \A i \in 1..(Len(attempts) - 1) :
          attempts[i + 1].size = IF attempts[i].result = "error"
                                 THEN attempts[i].size \div 2
                                 ELSE attempts[i].size
    /\ call.pc = "fetch" =>
          /\ call.retries = DefaultRetries - Cardinality(Failed(attempts))
          /\ Cardinality(Failed(attempts)) <= DefaultRetries
    /\ (call.pc = "idle" /\ outcome = "Error") <=>
          Cardinality(Failed(attempts)) = 1 + DefaultRetries

\* A page fetch of 500 rows failed five times, with 500, 250, 125, 62 and 31
\* rows asked for, and the error reached the caller.
C15_Witness ==
    /\ outcome = "Error"
    /\ Len(attempts) = 1 + DefaultRetries
    /\ attempts[1].size = 500
    /\ attempts[4].size = 62
    /\ attempts[5].size = 31
    /\ attempts[5].start = 2000

\* A response of the backend has come, so that its total row count is known.
TotalReported ==
    \/ fetched > 0
    \/ attempts # <<>> /\ attempts[Len(attempts)].result = "rows"

Looked(t) ==
    /\ reader[t].pc = "find"
    /\ reader'[t] # reader[t]
    /\ reader'[t].exc = "none"

\* C17: a nearest-neighbour lookup of any granularity returns a locale of that
\* granularity that is in the list of the catalog snapshot from which the tree
\* it reads was built (the tree the finder holds at that moment), never a
\* locale of another snapshot or one that is in no catalog.
C17_NearestInSnapshot ==
    [][\A t \in Readers :
          Looked(t) =>
              LET locale_type == RefreshOrder[reader[t].k]
                  tree == TreeOf(locale_type)
                  got == reader'[t].found[locale_type]
              IN /\ \E i \in 1..Len(tree.catalog) : tree.catalog[i] = got.locale
                 /\ got.build = tree.build
                 /\ \E b \in [ver : 1..MaxVersion, linked : BOOLEAN, cities : BOOLEAN] :
                       \E i \in 1..Len(GetLocaleData(b, locale_type)) :
                           GetLocaleData(b, locale_type)[i].locale = got.locale]_vars

\* A thread has finished FindNearestNeighbors on an index rebuilt from the
\* second version of the locale tables, and got that version's city.
C17_Witness ==
    \E t \in Readers :
        /\ reader[t].pc = "idle"
        /\ reader[t].k = Len(RefreshOrder)
        /\ reader[t].exc = "none"
        /\ reader[t].found["city"] = [locale |-> "US_ca_sfo", build |-> 2]
        /\ reader[t].found["country"].build = 2

\* Thread t has returned from FindNearestNeighbors with its three locales.
Answered(t) ==
    /\ reader[t].pc = "idle"
    /\ reader[t].k = Len(RefreshOrder)
    /\ reader[t].exc = "none"

\* No thread is inside the assignments of LocaleFinder._Refresh.
NoRebuildInProgress ==
    \A t \in Readers : reader[t].pc \notin {"countries", "regions", "cities", "last_refresh"}

\* C18: the three trees a reader uses belong to one build: the country, region
\* and city of one FindNearestNeighbors answer come from trees of a single
\* build, and when no rebuild is in progress the three trees of the finder are
\* those of one build.
C18_TreesOfOneBuild ==
    /\ \A t \in Readers :
          Answered(t) =>
              /\ reader[t].found["country"].build = reader[t].found["region"].build
              /\ reader[t].found["region"].build = reader[t].found["city"].build
    /\ NoRebuildInProgress =>
          /\ finder.countries.build = finder.regions.build
          /\ finder.regions.build = finder.cities.build

\* The refresh of thread t fails.
RefreshFails(t) ==
    /\ reader[t].pc = "refresh"
    /\ reader'[t].pc = "idle"
    /\ reader'[t].exc # "none"

\* C19: when a refresh of the finder fails, in the load of the catalog or in
\* the construction of a tree, none of the three trees and not the last
\* refresh time of the finder changes.
C19_FailedRefreshChangesNothing ==
    [][\A t \in Readers : RefreshFails(t) => finder' = finder]_vars

\* A refresh failed on a load error after an earlier build had filled the
\* finder, whose trees are all those of that build.
C19_Witness ==
    \E t \in Readers :
        /\ reader[t].pc = "idle"
        /\ reader[t].exc = "RefreshError"
        /\ finder.last_refresh = 0
        /\ today = LOCALE_REFRESH_RATE
        /\ finder.countries.build = 1
        /\ finder.regions.build = 1
        /\ finder.cities.build = 1

\* C20: when the manager has no snapshot, a load failure of the backend for any
\* locale type during the refresh raises RefreshError to the caller and leaves
\* the manager without a snapshot and with its last refresh time as it was.
C20_FirstRefreshFailureIsFatal ==
    (m_call.first /\ m_call.failed # {}) =>
        /\ m_call.exc = "RefreshError"
        /\ IsNone(manager.locales)
        /\ IsNone(manager.locales_by_type)
        /\ manager.last_refresh = Epoch

\* The first refresh loaded countries and regions and failed on the cities.
C20_Witness ==
    /\ m_call.first
    /\ m_call.failed = {"city"}
    /\ m_call.exc = "RefreshError"
    /\ IsNone(manager.locales)

\* A call on the manager that has a snapshot met a load failure of the backend.
LaterRefreshFailed ==
    /\ ~IsNone(manager.locales)
    /\ <<manager, m_call>>' # <<manager, m_call>>
    /\ m_call'.failed # {}

\* C21: when the manager has a snapshot, a load failure of the backend for any
\* locale type during a later refresh leaves the snapshot as it was before the
\* refresh (same locales, same types, same parents and children), and no
\* exception reaches the caller.
C21_LaterFailureKeepsSnapshot ==
    [][LaterRefreshFailed =>
          /\ m_call'.exc = "none"
          /\ manager'.locales = manager.locales
          /\ manager'.locales_by_type = manager.locales_by_type]_vars

\* The rows of any version of the locale tables.
AnyRows ==
    UNION { { GetLocaleData(b, ty)[i] : i \in 1..Len(GetLocaleData(b, ty)) } :
            b \in [ver : 1..MaxVersion, linked : BOOLEAN, cities : BOOLEAN], ty \in TypeSet }

\* The parent of locale n of the snapshot is None, or is the id of a locale of the
\* snapshot that has n among its children.
ParentResolved(locales, n) ==
    \/ locales[n].parent = NoValue
    \/ \E row \in AnyRows :
          /\ row.id = locales[n].parent
          /\ row.locale \in DOMAIN locales
          /\ \E i \in 1..Len(locales[row.locale].children) :
                locales[row.locale].children[i] = n

ReadWithinInterval ==
    /\ m_call.op = "LocalesByType"
    /\ m_call.at - m_call.since < LOCALE_REFRESH_RATE

\* C23: a read of the catalog made while less than the refresh interval has
\* elapsed since the last successful refresh does not query the backend (and so
\* cannot change the snapshot); only ForceRefresh reloads before the interval
\* has elapsed.
C23_NoReloadWithinInterval ==
    ReadWithinInterval => ~m_call.loaded

\* The data table of metric m holds a datapoint for the key (locale, date).
HoldsDatapoint(tbls, m, locale, date) ==
    \E r \in DOMAIN tbls[m].rows : r.locale = locale /\ r.date = date

\* C24: a bucket write is atomic: when the key of the bucket holds a datapoint,
\* no step of the write leaves the store, for a reader or for a failure that
\* ends the task there, in a state in which the key holds no datapoint.
C24_AtomicBucketWrite ==
    [][\A w \in Workers :
          (/\ pc[w] \in {"SetMetricData", "SetMetricDataInsert"}
           /\ HoldsDatapoint(tables, task[w].metric, Head(job[w].pending).locale, SqlDate(w)))
          => HoldsDatapoint(tables', task[w].metric, Head(job[w].pending).locale,
                            SqlDate(w))]_vars

\* The buckets of a month filled from every page of every country split.
RECURSIVE BucketAll(_, _)
BucketAll(mv, pages) ==
    IF pages = <<>> THEN mv ELSE BucketAll(BucketRows(mv, Head(pages)), Tail(pages))

MonthValues(date) ==
    LET table == DATE_TABLES_FMT(<<date.year, date.month>>)
    IN BucketAll(BucketAll(EmptyMetricValues, QueryPages(bigquery, table, COUNTRY_SPLITS[1])),
                 QueryPages(bigquery, table, COUNTRY_SPLITS[2]))

\* SetMetricData for each bucket of `order`, one after the other.
RECURSIVE WriteAll(_, _, _, _)
WriteAll(rows, mv, order, date) ==
    IF order = <<>> THEN rows
    ELSE LET b == Head(order)
             value == FormatF(Median(mv[b.type][b.locale]))
         IN WriteAll(SqlInsert(SqlDeleteLocaleDate(rows, b.locale, date),
                               DataRow(b.locale, date, value)),
                     mv, Tail(order), date)

\* The rows of the data table of metric m after one terminal task `request`
\* for (m, date) has run from its first statement to its last on `rows`.
RunFromScratch(request, m, date, rows) ==
    LET at == SqlDateValue(SqlDateLiteral(<<date.year, date.month>>))
        cleared == IF request = "update_metric" THEN SqlDeleteDate(rows, at) ELSE rows
        mv == MonthValues(date)
    IN IF m \notin DOMAIN definitions \/ MissingParams(definitions[m]) # {}
       THEN cleared
       ELSE WriteAll(cleared, mv, WriteOrder(mv, LocaleTypes), at)

\* A worker inside a terminal refresh or update task.
InTerminalRun(w) ==
    /\ pc[w] \in {"RefreshMetric", "UpdateMetric", "DeleteMetricDataDate",
                  "ComputeMetricData", "Rows", "SetMetricData", "SetMetricDataInsert"}
    /\ task[w].metric # None
    /\ job[w].date # NoPyDate

\* The step with which the handler of w returns without an exception.
Completes(w) == pc'[w] = "idle" /\ queue' = queue

\* C25: a terminal refresh or update task that a failure interrupts after it
\* has written any subset of its buckets, and that is delivered again and runs
\* from scratch to completion on the same input, leaves the same stored
\* datapoints as one uninterrupted run: no step of the task, the failure
\* included, changes what a run from scratch leaves in the store, and the
\* step that completes the task leaves exactly that.
C25_RetryEqualsOneRun ==
    [][\A w \in Workers : InTerminalRun(w) =>
          LET t == task[w]
              m == t.metric
              one_run == RunFromScratch(t.request, m, job[w].date, tables[m].rows)
          IN /\ RunFromScratch(t.request, m, job[w].date, tables'[m].rows) = one_run
             /\ Completes(w) => tables'[m].rows = one_run]_vars

\* A run completed after an attempt that had written some of its buckets, not
\* all, was cut short.
C25_Witness ==
    /\ lastRun.valid
    /\ lastRun.cut.valid
    /\ lastRun.cut.metric = lastRun.metric
    /\ lastRun.cut.date = lastRun.date
    /\ lastRun.cut.written # {}
    /\ BucketsWritten(lastRun.cut.written) # BucketsWritten(lastRun.written)

\* C26: no task handled by the worker, of any request kind, changes, creates
\* or removes a metric definition: no step changes the definitions table.
C26_DefinitionsUntouched == [][definitions' = definitions]_vars

\* The (year, month) post() parses from a date parameter.
ParsedDate(date) == <<MatchYear(date), MatchMonth(date)>>

\* C27: every task an expansion enqueues has no date, or carries its date as a
\* YYYY_MM string that post() parses back to the same (year, month): the one
\* of the request when an absent metric was expanded, the one of a month table
\* when an absent date was expanded.
C27_EnqueuedDateParsesBack ==
    lastExp.valid =>
        \A t \in BagToSet(lastExp.sent) :
            \/ t.date = NoDate
            \/ /\ DATE_RE(t.date)
               /\ ValidDate(MatchYear(t.date), MatchMonth(t.date))
               /\ IF lastExp.task.metric = None
                  THEN ParsedDate(t.date) = ParsedDate(lastExp.task.date)
                  ELSE PyDate(MatchYear(t.date), MatchMonth(t.date))
                           \in BigQueryExistingDates(bigquery)

\* The step with which a delete_metric task that was not cancelled completes.
DeleteCompletes(w) ==
    /\ pc[w] \in {"DeleteMetric", "DeleteMetricInfo", "DeleteMetricData"}
    /\ ~(pc[w] = "DeleteMetric" /\ shuttingDown[w])
    /\ Completes(w)

\* C28: after a delete_metric task for a metric completes without being
\* cancelled, the relational store holds neither the metric's definition nor
\* any datapoint of that metric.
C28_DeleteRemovesAll ==
    [][\A w \in Workers : DeleteCompletes(w) =>
          /\ task[w].metric \notin DOMAIN definitions'
          /\ tables'[task[w].metric].rows = EmptyBag]_vars

\* The delete_metric task of m1 has completed on a store that held a
\* definition and datapoints of m1.
C28_Witness ==
    /\ "m1" \notin DOMAIN definitions
    /\ ~tables["m1"].exists
    /\ tables["m2"].rows # EmptyBag
    /\ pc["w1"] = "idle"
    /\ queue = EmptyBag

\* The keys the rows of a month have at one granularity.
KeysOf(type, date) ==
    IF type = "world" THEN {WorldKey}
    ELSE { KeyOf(type, RunsOf(date)[j].row) : j \in 1..Len(RunsOf(date)) }

\* Every cursor of the terminal compute of w is exhausted: the row loop is
\* over and the buckets are being written.
CursorsExhausted(w) == pc[w] \in {"SetMetricData", "SetMetricDataInsert"}

\* C29: when all cursors of a terminal compute are exhausted, the buckets of
\* each of the four granularities hold one sample per row returned by any of
\* the cursors: the world bucket holds the value of every row, and the bucket
\* of each country, region and city exactly the values of the rows with that
\* key, whichever country split returned them.
C29_BucketsHoldEveryRow ==
    \A w \in Workers : CursorsExhausted(w) =>
        \A i \in 1..Len(LocaleTypes) :
            LET type == LocaleTypes[i]
                mv == job[w].metric_values
            IN /\ DOMAIN mv[type] = KeysOf(type, job[w].date)
               /\ \A locale \in DOMAIN mv[type] :
                      mv[type][locale] = SamplesIn(RunsOf(job[w].date), type, locale)
               /\ BagCardinality(mv["world"][WorldKey])
                      = job[w].total_rows

\* The row loop is over for a month whose rows came from both country splits.
C29_Witness ==
    /\ CursorsExhausted("w1")
    /\ Cardinality(DOMAIN job["w1"].metric_values["country"]) = 2
    /\ \A i \in 1..Len(COUNTRY_SPLITS) :
           QueryPages(bigquery, DATE_TABLES_FMT(DateTup("w1")), COUNTRY_SPLITS[i]) # <<>>

\* The number of rows of a month table.
RECURSIVE RowCount(_)
RowCount(runs) == IF runs = <<>> THEN 0 ELSE Head(runs).n + RowCount(Tail(runs))

\* A step of w that leaves in the data table of its metric a row it did not
\* hold, or more copies of one.
WritesDatapoint(w) ==
    /\ pc[w] # "idle"
    /\ task[w].metric # None
    /\ \E r \in DOMAIN tables'[task[w].metric].rows :
          CopiesIn(r, tables'[task[w].metric].rows) > CopiesIn(r, tables[task[w].metric].rows)

\* C30: within one terminal compute task no datapoint is written before every
\* cursor of the task has been consumed to its end: a step that writes one is
\* taken after the row loop, with every row of the month counted; and a task
\* that is still in its row loop, a cursor error included, has written none.
C30_NoWriteBeforeCursorsConsumed ==
    [][\A w \in Workers :
          /\ WritesDatapoint(w) =>
                 /\ CursorsExhausted(w)
                 /\ job[w].total_rows = RowCount(RunsOf(job[w].date))
          /\ pc[w] \in {"ComputeMetricData", "Rows"} =>
                 /\ job[w].written = {}
                 /\ ~WritesDatapoint(w)]_vars

\* A cursor error has cut an attempt short in its row loop after it had
\* consumed rows, and the store holds no datapoint of the metric.
C30_Witness ==
    /\ lastRun.cut.valid
    /\ lastRun.cut.pc = "Rows"
    /\ lastRun.cut.total_rows > 0
    /\ lastRun.cut.written = {}
    /\ pc["w1"] = "idle"
    /\ tables[lastRun.cut.metric].exists
    /\ tables[lastRun.cut.metric].rows = EmptyBag

\* The pages are the rows from 0 up to `upto`, each row once, in backend order.
InOrderOnce(pages, upto) ==
    /\ Len(pages) = 0 => upto = 0
    /\ Len(pages) > 0 =>
         /\ pages[1].from = 0
         /\ pages[Len(pages)].to = upto
         /\ \A i \in 1..(Len(pages) - 1) : pages[i + 1].from = pages[i].to

\* The backend sends the schema of job j only from a page after the first, and
\* no call on the cursor is in progress or has failed.
LateSchema(j) ==
    /\ j \in DOMAIN results
    /\ 0 < jobs[j].schema_from
    /\ jobs[j].schema_from < jobs[j].total
    /\ raised[j] = 0
    /\ fill.job # j

\* C31: when the backend returns the schema only on a page after the first,
\* the cursor still hands the rows of all the pages it fetched to the caller,
\* and with each of them the same column list.
C31_LateSchemaIsMerged ==
    \A j \in JobIds : LateSchema(j) =>
        /\ InOrderOnce(yielded[j], client.current_row[j])
        /\ \A i \in 1..Len(yielded[j]) : yielded[j][i].columns = "fields"
        /\ client.current_row[j] > 0 => results[j].columns = "fields"

\* The cursor of job j has been read to its end, no fetch has failed, and the
\* backend sent the schema with the first page.
ReadToTheEnd(j) ==
    /\ j \in DOMAIN results
    /\ raised[j] = 0
    /\ jobs[j].schema_from = 0
    /\ fill.job # j
    /\ ~ClientHasMore(j)

NoGap(pages, upto) ==
    /\ \A i \in 1..Len(pages) :
           pages[i].from = (IF i = 1 THEN 0 ELSE pages[i - 1].to)
    /\ upto = (IF Len(pages) = 0 THEN 0 ELSE pages[Len(pages)].to)

\* C33: a call that fails (retries used up, or deadline exceeded) loses no
\* row: between the calls, the rows the successful calls on the cursor have
\* delivered, before and after the failure, have no gap, and the offset of
\* the cursor is past no row that was not delivered.
C33_FailedFetchLosesNoRow ==
    \A j \in JobIds :
        (j \in DOMAIN results /\ jobs[j].schema_from = 0 /\ fill.job # j) =>
            NoGap(yielded[j], client.current_row[j])

\* The step belongs to a GetQueryResults call on the cursor of job j: its
\* entry, one of its responses, its return or its failure.
FetchStepOn(j) ==
    \/ fill.pc = "fetch" /\ fill.job = j
    \/ fill.pc = "idle" /\ fill'.pc = "fetch" /\ fill'.job = j

\* Dicts d and e hold the same for key k: no entry, or the same value.
SameEntry(d, e, k) ==
    /\ k \in DOMAIN e <=> k \in DOMAIN d
    /\ k \in DOMAIN d => e[k] = d[k]

\* C34: the cursors opened on one client are independent: a call on one job
\* id, whether it returns or fails, leaves the row offset, the has-more flag,
\* the start time and the timeout of every other job id as they were.
C34_CursorsIndependent ==
    [][\A j \in JobIds : \A k \in JobIds \ {j} :
          FetchStepOn(j) =>
              /\ SameEntry(client.current_row, client'.current_row, k)
              /\ SameEntry(client.has_more_data, client'.has_more_data, k)
              /\ SameEntry(client.start_time, client'.start_time, k)
              /\ SameEntry(client.total_timeout, client'.total_timeout, k)]_vars

\* A call on j1 is in progress while the cursor of j2 is part read, with
\* another start time and another offset.
C34_Witness ==
    /\ fill.pc = "fetch"
    /\ fill.job = "j1"
    /\ "j2" \in DOMAIN client.start_time
    /\ client.start_time["j2"] # client.start_time["j1"]
    /\ client.current_row["j2"] > 0
    /\ client.current_row["j1"] > client.current_row["j2"]
    /\ ClientHasMore("j2")

\* Worker w is about to expand the refresh request for a metric (one with a
\* valid query) that the last expansion expanded, and every task that
\* expansion sent has been handled to its end: none is in the queue or in a
\* worker's hands.
ExpandsAgain(w) ==
    /\ pc[w] = "RefreshMetric"
    /\ task[w].metric \in DOMAIN definitions
    /\ MissingParams(definitions[task[w].metric]) = {}
    /\ job[w].date = NoPyDate
    /\ lastExp.valid
    /\ ~lastExp.failed
    /\ lastExp.task = task[w]
    /\ lastExp.sent # EmptyBag
    /\ \A t \in BagToSet(lastExp.sent) :
           /\ ~BagIn(t, queue)
           /\ \A v \in Workers : task[v] # t

\* C35: refresh converges: once a refresh request for a metric has been
\* expanded and all of its terminal tasks have completed, handling the same
\* request again, the analytical backend unchanged, enqueues no task.
C35_RefreshConverges ==
    [][\A w \in Workers : (ExpandsAgain(w) /\ pc'[w] = "idle") => queue' = queue]_vars

\* The locales of the buckets of a month that reach the threshold.
SurvivingLocales(date) ==
    { b.locale : b \in { x \in BucketsOf(date) : SampleCount(x, date) >= MIN_ENTRIES_THRESHOLD } }

\* The locales with a datapoint for a date in the rows of a data table.
StoredLocales(rows, date) == { r.locale : r \in { x \in DOMAIN rows : x.date = date } }

\* The step with which a terminal update task of w, for a metric with a valid
\* query and a month with at least one row, completes.
UpdateCompletes(w) ==
    /\ task[w].request = "update_metric"
    /\ pc[w] \in {"Rows", "SetMetricDataInsert"}
    /\ task[w].metric \in DOMAIN definitions
    /\ MissingParams(definitions[task[w].metric]) = {}
    /\ RowCount(RunsOf(job[w].date)) >= 1
    /\ Completes(w)

\* C36: after a terminal update task for (metric, month) completes with a
\* valid query and at least one row, the locales with a stored datapoint for
\* that (metric, month) are exactly the buckets that passed the threshold in
\* this run; no datapoint of an earlier run remains for another locale.
C36_UpdateLeavesSurvivorsOnly ==
    [][\A w \in Workers : UpdateCompletes(w) =>
          StoredLocales(tables'[task[w].metric].rows, SqlDate(w))
              = SurvivingLocales(job[w].date)]_vars

\* An update of (m1, 2013_01) has completed on a store that held a datapoint
\* for a city that now has 99 samples: that datapoint is gone.
C36_Witness ==
    /\ lastRun.valid
    /\ lastRun.metric = "m1"
    /\ lastRun.date = Date_2013_01
    /\ tables["m2"].rows # EmptyBag
    /\ pc["w1"] = "idle"
    /\ Join(<<US, CA, Quote(SF)>>) \notin StoredLocales(tables["m1"].rows, lastRun.date)
    /\ WorldKey \in StoredLocales(tables["m1"].rows, lastRun.date)

\* The rows of a data table for the dates other than `date`.
RowsNotAt(rows, date) == [r \in { x \in DOMAIN rows : x.date # date } |-> rows[r]]

\* C37: a terminal refresh or update task for (metric, month) leaves every
\* datapoint of any other metric, and every datapoint of the same metric for
\* any other month, as it was, at each of its steps: whether it completes,
\* aborts or is cancelled.
C37_OtherKeysUntouched ==
    [][\A w \in Workers : InTerminalRun(w) =>
          /\ \A m \in MetricNames \ {task[w].metric} : tables'[m] = tables[m]
          /\ RowsNotAt(tables'[task[w].metric].rows, SqlDate(w))
                 = RowsNotAt(tables[task[w].metric].rows, SqlDate(w))]_vars

\* A terminal task for (m1, 2013_01) is writing while the store holds
\* datapoints of m1 for 2013_02 and datapoints of m2.
C37_Witness ==
    /\ pc["w1"] = "SetMetricDataInsert"
    /\ task["w1"].metric = "m1"
    /\ job["w1"].date = Date_2013_01
    /\ job["w1"].written # {}
    /\ tables["m2"].rows # EmptyBag
    /\ \E r \in DOMAIN tables["m1"].rows : r.date # SqlDate("w1") /\ r.locale = WorldKey

\* The step of w in which the listing of the metrics fails with a load error
\* while a request with no metric is expanded.
ListingLoadError(w) ==
    /\ pc[w] \in {"RefreshMetric", "UpdateMetric"}
    /\ task[w].metric = None
    /\ pc'[w] = "idle"
    /\ lastExp'.exc = "LoadError"

\* C38: if listing the metrics fails with a load error while a request with
\* no metric is expanded, the request is dropped: no task is enqueued, the
\* relational store is unchanged and no error leaves the handler (the queue
\* does not get the request back).
C38_ListingErrorDropsRequest ==
    [][\A w \in Workers : ListingLoadError(w) =>
          /\ queue' = queue
          /\ tables' = tables
          /\ definitions' = definitions]_vars

\* A request with no metric has been dropped after a load error, and nothing
\* is left to do.
C38_Witness ==
    /\ lastExp.valid
    /\ lastExp.exc = "LoadError"
    /\ lastExp.task.metric = None
    /\ lastExp.task.request = "update_metric"
    /\ queue = EmptyBag
    /\ pc["w1"] = "idle"

\* ----------------------------------------------------------- the API server
\* The years of the requests: MaxYears years from FirstYear on.  int() of a
\* GET parameter is any integer, so a month is not always one of 1..12.
FirstYear == 2012
MaxYears == 2
ApiYears == FirstYear .. (FirstYear + MaxYears - 1)
ApiMonths == 0 .. 13

\* The (year, month) pairs for which LookupResult raises a metrics.Error.
UnknownMonths == { {}, {<<FirstYear, 12>>} }

\* The date that follows d in the loop of HandleMultiMetricQuery.
NextMonth(d) == IF d[2] + 1 = 13 THEN <<d[1] + 1, 1>> ELSE <<d[1], d[2] + 1>>

\* current_date <= end_date
DateLeq(d, e) == d[1] < e[1] \/ (d[1] = e[1] /\ d[2] <= e[2])

Returned(res) == [kind |-> "return", error |-> "none", results |-> res, locale_type |-> "none"]
Raised(err) == [kind |-> "raise", error |-> err, results |-> {}, locale_type |-> "none"]

\* `while current_date <= end_date`: the result of each month is stored under
\* the key str(year) + '-' + str(month), which the pair <<year, month>> stands
\* for; a lookup that raises ends the loop with a LookupError.
RECURSIVE LookupLoop(_, _, _, _)
LookupLoop(current_date, end_date, unknown, res) ==
    IF ~DateLeq(current_date, end_date) THEN Returned(res)
    ELSE IF current_date \in unknown THEN Raised("LookupError")
    ELSE LookupLoop(NextMonth(current_date), end_date, unknown, res \cup {current_date})

\* A rejection that compares the two dates as dates.
EndBeforeStart(startyear, startmonth, endyear, endmonth) ==
    endyear < startyear \/ (endyear = startyear /\ endmonth < startmonth)

\* `if endyear < startyear or endmonth < startmonth`
RejectsRange(startyear, startmonth, endyear, endmonth) ==
    endyear < startyear \/ endmonth < startmonth

\* HandleMultiMetricQuery, for a request that names its metric, its locale
\* and its four date parameters.
HandleMultiMetricQuery(unknown, startyear, startmonth, endyear, endmonth) ==
    IF RejectsRange(startyear, startmonth, endyear, endmonth) THEN Raised("SyntaxError")
    ELSE IF ~ValidDate(startyear, startmonth) \/ ~ValidDate(endyear, endmonth)
         THEN Raised("ValueError")
    ELSE LookupLoop(<<startyear, startmonth>>, <<endyear, endmonth>>, unknown, {})

\* locale_str.split('_')
RECURSIVE SplitFrom(_, _)
SplitFrom(s, cur) ==
    IF s = <<>> THEN <<cur>>
    ELSE IF Head(s) = "_" THEN <<cur>> \o SplitFrom(Tail(s), <<>>)
    ELSE SplitFrom(Tail(s), Append(cur, Head(s)))
Split(s) == SplitFrom(s, <<>>)

depth_map == <<"country", "region", "city">>

\* Metric._DetermineLocaleType: a depth that depth_map does not have is a
\* KeyError.
DetermineLocaleType(locale_str) ==
    IF locale_str = WorldKey THEN "world"
    ELSE LET depth == Len(Split(locale_str))
         IN  IF depth \in DOMAIN depth_map THEN depth_map[depth] ELSE "KeyError"

\* The rows the datapoints are computed from, and the key the row loop of
\* _ComputeMetricData makes of a row for the bucket of a locale type.
ApiRows == { Row(c, r, t, V1) : c \in {US, DE}, r \in {CA, BE}, t \in {MV, SF, BLN} }
WrittenKey(type, row) ==
    CASE type = "city" -> CityKey(row)
      [] type = "region" -> RegionKey(row)
      [] type = "country" -> CountryKey(row)
      [] OTHER -> WorldKey

\* metric_api_query with endyear and endmonth given: the four parameters
\* through int(), then HandleMultiMetricQuery; an error of the query engine
\* or a ValueError becomes the {'error': ..} reply.
MetricApiQuery ==
    /\ api_request.kind = "none"
    /\ \E startyear \in ApiYears, endyear \in ApiYears,
          startmonth \in ApiMonths, endmonth \in ApiMonths, unknown \in UnknownMonths :
         /\ api_request' = [kind |-> "multi", unknown |-> unknown,
                            startyear |-> startyear, startmonth |-> startmonth,
                            endyear |-> endyear, endmonth |-> endmonth]
         /\ api_reply' = HandleMultiMetricQuery(unknown, startyear, startmonth,
                                                endyear, endmonth)
    /\ UNCHANGED notApi

\* The first step of LookupResult for a locale that a datapoint was written
\* under: locale_type = self._DetermineLocaleType(locale).
LookupLocaleType ==
    /\ api_request.kind = "none"
    /\ \E type \in {"city", "region", "country", "world"}, row \in ApiRows :
         /\ api_request' = [kind |-> "locale", written_as |-> type, row |-> row,
                            locale |-> WrittenKey(type, row)]
         /\ api_reply' = LET t == DetermineLocaleType(WrittenKey(type, row))
                         IN  IF t = "KeyError" THEN Raised("KeyError")
                             ELSE [Returned({}) EXCEPT !.locale_type = t]
    /\ UNCHANGED notApi

\* The reply is sent; the server waits for the next request.
ApiRespond ==
    /\ api_request.kind # "none"
    /\ api_request' = NoRequest
    /\ api_reply' = NoReply
    /\ UNCHANGED notApi

ApiInit ==
    /\ NoWorker /\ NoCursor /\ NoLocale /\ NoClient
    /\ NoApi

ApiNext ==
    \/ MetricApiQuery
    \/ LookupLocaleType
    \/ ApiRespond

ApiSpec == ApiInit /\ [][ApiNext]_vars

\* The calendar months from (startyear, startmonth) to (endyear, endmonth).
MonthsBetween(startyear, startmonth, endyear, endmonth) ==
    { d \in (startyear..endyear) \X (1..12) :
        /\ 12 * startyear + startmonth <= 12 * d[1] + d[2]
        /\ 12 * d[1] + d[2] <= 12 * endyear + endmonth }

\* A multi-month query with valid months whose lookups all succeed.
MultiQueryAnswered ==
    /\ api_request.kind = "multi"
    /\ api_request.unknown = {}
    /\ api_request.startmonth \in 1..12
    /\ api_request.endmonth \in 1..12

\* C39: for every start and end (year, month) with the end not before the
\* start, the multi-month query returns one result for each calendar month
\* from start to end inclusive, across year boundaries; it rejects a request
\* with a syntax error only when the end lies before the start.
C39_OneResultPerMonth ==
    MultiQueryAnswered =>
        LET q == api_request
            before == 12 * q.endyear + q.endmonth < 12 * q.startyear + q.startmonth
        IN  /\ ~before =>
                  /\ api_reply.kind = "return"
                  /\ api_reply.results =
                         MonthsBetween(q.startyear, q.startmonth, q.endyear, q.endmonth)
            /\ (api_reply.kind = "raise" /\ api_reply.error = "SyntaxError") => before

\* C40: for every locale id the aggregation can write as the key of a
\* datapoint ('world', country, country_region, country_region_city with
\* the city name url-encoded), the classifier of the lookup returns the
\* locale type the datapoint was written under, also for a city name that
\* contains '_'.
C40_ClassifierMatchesWrittenKey ==
    api_request.kind = "locale" =>
        /\ api_reply.kind = "return"
        /\ api_reply.locale_type = api_request.written_as
====
